---- MODULE Spec2Model ----
(***************************************************************************)
(* A model of the hex-grid sound manager (src/src/soundManager.ts): the    *)
(* Web Audio signal graph it builds, the colour-to-parameter mappers, the  *)
(* mix setters and the lookahead chord scheduler.                          *)
(*                                                                         *)
(* Units.  Audio-clock times are whole ticks of 1/64 s; the stored chord   *)
(* duration is a whole number of quarter seconds, so that an eighth, a     *)
(* sixteenth and a half of it are whole ticks.  Waveform gains are in units*)
(* of 1/120 (WeightUnit), output and volume gains in units of 1/100        *)
(* (GainUnit), wet/dry gains in units of 1e-6, semitone offsets in half    *)
(* semitones (SemitoneUnit), detunes in cents.  The detune automation is  *)
(* kept for each of the three oscillators of a voice; the waveform gains   *)
(* and the frequency of a voice are kept as values.                        *)
(***************************************************************************)
EXTENDS Integers, Sequences, FiniteSets, TLC

\* ------------------------------------------------------------------ units

TicksPerSecond == 64
DurationUnitsPerSecond == 4
WeightUnit == 120
GainUnit == 100
SemitoneUnit == 2

\* ----------------------------------------------------------- chord tables

MajorTriadSemitones == <<0, 4, 7, 0>>
MinorTriadSemitones == <<0, 3, 7, 0>>
AugmentedTriadSemitones == <<0, 4, 8, 0>>
DiminishedTriadSemitones == <<0, 3, 6, 0>>
DominantSeventhSemitones == <<0, 4, 7, 10>>
MajorSeventhSemitones == <<0, 4, 7, 11>>
MinorSeventhSemitones == <<0, 3, 7, 10>>

DefaultSemitones == MajorTriadSemitones

ChordTones ==
  ( "I Maj"    :> <<0, MajorTriadSemitones>> )
  @@ ( "II min"   :> <<2, MinorTriadSemitones>> )
  @@ ( "III min"  :> <<4, MinorTriadSemitones>> )
  @@ ( "IV Maj"   :> <<5, MajorTriadSemitones>> )
  @@ ( "V Maj"    :> <<7, MajorTriadSemitones>> )
  @@ ( "VI min"   :> <<9, MinorTriadSemitones>> )
  @@ ( "VII dim"  :> <<11, DiminishedTriadSemitones>> )
  @@ ( "I min"    :> <<0, MinorTriadSemitones>> )
  @@ ( "II dim"   :> <<2, DiminishedTriadSemitones>> )
  @@ ( "bIII Aug" :> <<3, AugmentedTriadSemitones>> )
  @@ ( "IV min"   :> <<5, MinorTriadSemitones>> )
  @@ ( "bVI Maj"  :> <<8, MajorTriadSemitones>> )
  @@ ( "bVII Maj" :> <<10, MajorTriadSemitones>> )
  @@ ( "III Maj"  :> <<4, MajorTriadSemitones>> )
  @@ ( "I7"       :> <<0, DominantSeventhSemitones>> )
  @@ ( "II7"      :> <<2, DominantSeventhSemitones>> )
  @@ ( "III7"     :> <<4, DominantSeventhSemitones>> )
  @@ ( "IV7"      :> <<5, DominantSeventhSemitones>> )
  @@ ( "V7"       :> <<7, DominantSeventhSemitones>> )
  @@ ( "VI7"      :> <<9, DominantSeventhSemitones>> )
  @@ ( "VII7"     :> <<11, DominantSeventhSemitones>> )
  @@ ( "I Maj7"   :> <<0, MajorSeventhSemitones>> )
  @@ ( "II Maj7"  :> <<2, MajorSeventhSemitones>> )
  @@ ( "III Maj7" :> <<4, MajorSeventhSemitones>> )
  @@ ( "IV Maj7"  :> <<5, MajorSeventhSemitones>> )
  @@ ( "V Maj7"   :> <<7, MajorSeventhSemitones>> )
  @@ ( "VI Maj7"  :> <<9, MajorSeventhSemitones>> )
  @@ ( "VII Maj7" :> <<11, MajorSeventhSemitones>> )
  @@ ( "I min7"   :> <<0, MinorSeventhSemitones>> )
  @@ ( "II min7"  :> <<2, MinorSeventhSemitones>> )
  @@ ( "III min7" :> <<4, MinorSeventhSemitones>> )
  @@ ( "IV min7"  :> <<5, MinorSeventhSemitones>> )
  @@ ( "V min7"   :> <<7, MinorSeventhSemitones>> )
  @@ ( "VI min7"  :> <<9, MinorSeventhSemitones>> )
  @@ ( "VII min7" :> <<11, MinorSeventhSemitones>> )

ChordProgressions ==
  ( "Awesome-1"      :> <<"I Maj", "V Maj", "VI min", "IV Maj">> )
  @@ ( "Awesome-2"      :> <<"V Maj", "VI min", "IV Maj", "I Maj">> )
  @@ ( "Awesome-3"      :> <<"VI min", "IV Maj", "I Maj", "V Maj">> )
  @@ ( "Awesome-4"      :> <<"IV Maj", "I Maj", "V Maj", "VI min">> )
  @@ ( "Awesome-5"      :> <<"I Maj", "V Maj", "bVII Maj", "IV Maj">> )
  @@ ( "Awesome-6"      :> <<"I Maj", "IV Maj", "bVII Maj", "IV Maj">> )
  @@ ( "Fifties"        :> <<"I Maj", "VI min", "IV Maj", "V Maj">> )
  @@ ( "Circle"         :> <<"VI min", "II min", "V Maj", "I Maj">> )
  @@ ( "Three-Chord-1"  :> <<"V Maj", "I Maj", "IV Maj">> )
  @@ ( "Three-Chord-2"  :> <<"I Maj", "V Maj", "IV Maj", "V Maj">> )
  @@ ( "Three-Chord-3"  :> <<"V Maj", "IV Maj", "I Maj">> )
  @@ ( "Three-Chord-4"  :> <<"I Maj", "VI min", "V Maj">> )
  @@ ( "Three-Chord-5"  :> <<"I Maj", "II min", "V Maj">> )
  @@ ( "Pachelbel"      :> <<"I Maj", "V Maj", "VI min", "III min",
                             "IV Maj", "I Maj", "IV Maj", "V Maj">> )
  @@ ( "Royal"          :> <<"IV Maj7", "V7", "III min7", "VI min">> )
  @@ ( "Royal-Extended" :> <<"IV Maj7", "V7", "III min7", "VI min",
                             "II min7", "V7", "I Maj">> )
  @@ ( "MontyWard"      :> <<"I7", "IV7", "II min7", "V7">> )

\* Object.keys(ChordProgressions): the keys in insertion order.
AllProgressions ==
  << "Awesome-1", "Awesome-2", "Awesome-3", "Awesome-4", "Awesome-5",
     "Awesome-6", "Fifties", "Circle", "Three-Chord-1", "Three-Chord-2",
     "Three-Chord-3", "Three-Chord-4", "Three-Chord-5", "Pachelbel",
     "Royal", "Royal-Extended", "MontyWard" >>

\* ------------------------------------------------------- numeric helpers

Min(a, b) == IF a <= b THEN a ELSE b
Max(a, b) == IF a >= b THEN a ELSE b

\* JavaScript's remainder: the result takes the sign of the dividend.
JsRemainder(a, n) == IF a >= 0 THEN a % n ELSE 0 - ((0 - a) % n)

\* A clamp that bounds the value from below only.
clampFromBelow(value, minimum, maximum) == Max(minimum, value)

\* store.ts clamp.
clamp(value, minimum, maximum) == Max(minimum, Min(maximum, value))

\* store.ts scaleNumericValue; the result is in units of 1/unit, where unit
\* is chosen by the caller so that the scaled value is a whole number.
scaleNumericValue(fromValue, fromRange, toRange, unit) ==
  LET valueInRange == Min(fromRange[2], Max(fromRange[1], fromValue)) - fromRange[1]
  IN  (toRange[1] * unit)
        + ((valueInRange * (toRange[2] - toRange[1]) * unit)
             \div (fromRange[2] - fromRange[1]))

\* ------------------------------------------------- AudioParam automation

\* A chord duration, stored in quarter seconds, as ticks.
DurationTicks(duration) == duration * (TicksPerSecond \div DurationUnitsPerSecond)

Voices == {"root", "third", "fifth", "seventh"}
Waves == {"square", "sawtooth", "sine"}

SetValueEvent(v, t) == [type |-> "setValueAtTime", value |-> v, time |-> t, timeConstant |-> 0]
LinearRampEvent(v, t) == [type |-> "linearRampToValueAtTime", value |-> v, time |-> t, timeConstant |-> 0]
SetTargetEvent(v, t, tc) == [type |-> "setTargetAtTime", value |-> v, time |-> t, timeConstant |-> tc]

\* AudioParam.cancelScheduledValues(cancelTime): every event at or after
\* cancelTime is removed.
CancelScheduledValues(events, cancelTime) ==
  SelectSeq(events, LAMBDA e : e.time < cancelTime)

\* Insertion of an automation event into the time-ordered event list: the
\* event goes after every event at or before its time, so that of two events
\* at one time the one inserted later comes later in the list.
InsertEvent(events, ev) ==
  LET before == SelectSeq(events, LAMBDA e : e.time <= ev.time)
      after == SelectSeq(events, LAMBDA e : e.time > ev.time)
  IN  before \o <<ev>> \o after

\* ------------------------------------------------ colour-to-parameter maps

HALF_PI_E4 == 15708

Weights(sq, saw, sin) == [square |-> sq, sawtooth |-> saw, sine |-> sin]

\* A hue mapper that gives both channels of a 50/50 blend the full weight.
HueComponentsFullBlend(h) ==
  IF h \in {60, 180, 300}
  THEN [square |-> IF h = 180 THEN 0 ELSE WeightUnit,
        sawtooth |-> IF h = 300 THEN 0 ELSE WeightUnit,
        sine |-> IF h = 60 THEN 0 ELSE WeightUnit]
  ELSE IF h < 120 THEN [square |-> clamp(120 - h, 0, 120), sawtooth |-> clamp(h, 0, 120), sine |-> 0]
  ELSE IF h < 240 THEN [square |-> 0, sawtooth |-> 240 - h, sine |-> h - 120]
  ELSE [square |-> clamp(h - 240, 0, 120), sawtooth |-> 0, sine |-> clamp(360 - h, 0, 120)]

\* cascadeHueToAudioNodes: the three waveform gains for the stored hue, in
\* units of 1/WeightUnit (red = square, green = sawtooth, blue = sine).
HueComponentsBothRise(h) ==
  LET up(lo, hi) == scaleNumericValue(h, <<lo, hi>>, <<0, 1>>, WeightUnit)
  IN  IF h < 120 THEN Weights(up(0, 120), up(0, 120), 0)
      ELSE IF h < 240 THEN Weights(0, up(120, 240), up(120, 240))
      ELSE Weights(up(240, 360), 0, up(240, 360))

HueComponents(h) ==
  LET one == WeightUnit
      half == WeightUnit \div 2
      up(lo, hi) == scaleNumericValue(h, <<lo, hi>>, <<0, 1>>, WeightUnit)
      down(lo, hi) == scaleNumericValue(h, <<lo, hi>>, <<1, 0>>, WeightUnit)
  IN  IF JsRemainder(h, 120) = 0
      THEN CASE h = 120 -> Weights(0, one, 0)
             [] h = 240 -> Weights(0, 0, one)
             [] h = 0 \/ h = 360 -> Weights(one, 0, 0)
             [] OTHER -> Weights(0, 0, 0)
      ELSE IF JsRemainder(h, 60) = 0
      THEN CASE h = 60 -> Weights(half, half, 0)
             [] h = 180 -> Weights(0, half, half)
             [] h = 300 -> Weights(half, 0, half)
             [] OTHER -> Weights(0, 0, 0)
      ELSE IF h < 120 THEN Weights(down(0, 120), up(0, 120), 0)
      ELSE IF h < 240 THEN Weights(0, down(120, 240), up(120, 240))
      ELSE IF h < 360 THEN Weights(up(240, 360), 0, down(240, 360))
      ELSE Weights(0, 0, 0)

\* A saturation mapper that does not clamp.
ChordGainsUnclamped(s) == (s * GainUnit) \div 100

\* cascadeSaturationToAudioNodes: the chord-voice output gain, in 1/GainUnit.
ChordGains(s) == (clamp(s, 0, 100) * GainUnit) \div 100

\* A lightness scale that starts at the base pitch: 0 to 50 semitones.
SemitoneDistanceFromBase(l) ==
  scaleNumericValue(clamp(l, 0, 100), <<0, 100>>, <<0, 50>>, SemitoneUnit)

\* A lightness mapper over two octaves (24 semitones) either way.
SemitoneDistanceNarrow(l) ==
  scaleNumericValue(clamp(l, 0, 100), <<0, 100>>, <<0 - 24, 24>>, SemitoneUnit)

\* cascadeLightnessToAudioNodes: the semitone distance, in half semitones.
SemitoneDistance(l) ==
  scaleNumericValue(clamp(l, 0, 100), <<0, 100>>, <<0 - 25, 25>>, SemitoneUnit)

\* A frequency base * 2^(halfSemitones/24) Hz, kept by its exponent.
Frequency(halfSemitones) == [base |-> 440, halfSemitones |-> halfSemitones]

\* A balance that sends to the wet path and leaves the dry path fully open.
WetDryBalanceDryOpen(wetGain) ==
  [wet |-> wetGain * HALF_PI_E4, dry |-> GainUnit * HALF_PI_E4]

\* setWetDryBalance: the wet and dry gains for a stored intensity (in
\* 1/GainUnit), in units of 1e-6 (HALF_PI is 1.5708).
WetDryBalance(wetGain) ==
  [wet |-> wetGain * HALF_PI_E4, dry |-> (GainUnit - wetGain) * HALF_PI_E4]

\* ------------------------------------------------------------------ state

VARIABLES
  hue, saturation, lightness,
  structureInitialized, audioContext,
  lfoFrequency, lfoGain, reverbGain, overallVolumeGain,
  isChordProgressionEnabled, nextChordProgressionEndTime, chordDurationSeconds,
  nodes, started, stopped,
  oscillatorGains, outputGain, frequency, detune, startStopGain,
  lfoChain, reverbChain, overallVolumeGainNode,
  fetches, settled, periodicWave, convolverBuffer,
  colorState, tables,
  currentTime, timers, setterCalls, lastOp, written,
  soundInterface

colourVars == <<hue, saturation, lightness>>
mixVars == <<lfoFrequency, lfoGain, reverbGain, overallVolumeGain>>
chordVars == <<isChordProgressionEnabled, nextChordProgressionEndTime, chordDurationSeconds>>
assetVars == <<fetches, settled, periodicWave, convolverBuffer>>
lifeVars == <<structureInitialized, audioContext, nodes, started, stopped, assetVars>>
voiceVars == <<oscillatorGains, outputGain, frequency>>
autoVars == <<detune, startStopGain>>
fxVars == <<lfoChain, reverbChain, overallVolumeGainNode>>
envVars == <<currentTime, timers, setterCalls>>
vars == <<colourVars, mixVars, chordVars, lifeVars, voiceVars, autoVars, fxVars,
          colorState, tables, envVars, lastOp, written, soundInterface>>

\* The assets initializeAudioStructure fetches: a wavetable for each waveform
\* and the impulse response of the reverb.
Assets == Waves \cup {"impulse"}

\* The parameters of the graph that the manager writes.
Parameters ==
  {"waveformGain", "outputGain", "frequency", "detune", "gate",
   "lfoFrequency", "lfoGains", "reverbGains", "volume"}

\* A node reference that is still null.
NoNode == [null |-> TRUE]

\* The nodes initializeAudioStructure constructs, by role.
VoiceNodes ==
  { <<v, w, "oscillator">> : v \in Voices, w \in Waves }
    \cup { <<v, w, "gain">> : v \in Voices, w \in Waves }
    \cup { <<v, "mixer", "merger">> : v \in Voices }
    \cup { <<v, "output", "gain">> : v \in Voices }
GraphNodes ==
  VoiceNodes
    \cup { <<"chains", "mixer", "merger">>, <<"startStop", "output", "gain">>,
           <<"lfo", "sine", "oscillator">>, <<"lfo", "oscillator", "gain">>,
           <<"lfo", "constant", "source">>, <<"lfo", "constant", "gain">>,
           <<"lfo", "mixer", "merger">>, <<"lfo", "output", "gain">>,
           <<"reverb", "convolver", "convolver">>, <<"reverb", "wet", "gain">>,
           <<"reverb", "dry", "gain">>, <<"reverb", "output", "merger">>,
           <<"volume", "output", "gain">> }
Oscillators == { n \in GraphNodes : n[3] = "oscillator" }

\* ----------------------------------------------------------------- bounds

\* The audio clock stops advancing at MaxTime ticks. The program arms a
\* lookahead timer whatever is pending; the specifications follow it up to
\* MaxTimers pending timers and leave out the steps that arm more.
MaxTime == 80
MaxTimers == 2

TimersBounded == timers' <= MaxTimers

\* The full machine is explored up to ShortTime ticks of audio time and up to
\* MaxSetterCalls calls of the colour and mix setters.
ShortTime == 16
MaxSetterCalls == 1

\* ---------------------------------------------------------- initial state

Init ==
  /\ hue = 300
  /\ saturation = 50
  /\ lightness = 40
  /\ structureInitialized = FALSE
  /\ audioContext = "null"
  /\ lfoFrequency = 15
  /\ lfoGain = 25
  /\ reverbGain = 0
  /\ overallVolumeGain = 10
  /\ isChordProgressionEnabled = FALSE
  /\ nextChordProgressionEndTime = 0
  /\ chordDurationSeconds = 2 * DurationUnitsPerSecond
  /\ nodes = [n \in GraphNodes |-> 0]
  /\ started = [n \in Oscillators |-> 0]
  /\ stopped = [n \in Oscillators |-> 0]
  /\ oscillatorGains = NoNode
  /\ outputGain = NoNode
  /\ frequency = NoNode
  /\ detune = NoNode
  /\ startStopGain = NoNode
  /\ lfoChain = NoNode
  /\ reverbChain = NoNode
  /\ overallVolumeGainNode = NoNode
  /\ currentTime = 0
  /\ timers = 0
  /\ colorState = [hue |-> 300, saturation |-> 50, lightness |-> 40]
  /\ tables = [ChordProgressions |-> ChordProgressions, ChordTones |-> ChordTones]
  /\ fetches = [a \in Assets |-> 0]
  /\ settled = [a \in Assets |-> "none"]
  /\ periodicWave = [w \in Waves |-> FALSE]
  /\ convolverBuffer = FALSE
  /\ setterCalls = 0
  /\ lastOp = "new"
  /\ written = {}
  /\ soundInterface = [isInterfaceExpanded |-> FALSE,
                       isPlaying |-> FALSE,
                       currentVolume |-> 10,
                       currentReverbIntensity |-> 0,
                       currentLfoIntensity |-> 25,
                       currentLfoFrequency |-> 15,
                       isChordProgressionEnabled |-> FALSE,
                       currentChordDuration |-> 2 * DurationUnitsPerSecond]

\* --------------------------------------------------------- chord scheduler

LOOKAHEAD_TICKS == 16

\* assignWaveformDetune for one chain: optionally cancel, then set.
assignWaveformDetune(oscillators, cents, atTime, cancelSchedules) ==
  [w \in Waves |->
     InsertEvent(IF cancelSchedules THEN CancelScheduledValues(oscillators[w], atTime)
                 ELSE oscillators[w],
                 SetValueEvent(cents, atTime))]

VoiceIndex == ( "root" :> 1 ) @@ ( "third" :> 2 ) @@ ( "fifth" :> 3 ) @@ ( "seventh" :> 4 )

\* A reset that sets the gate without cancelling what is scheduled.
ResetGateKeepsSchedule(gateEvents, cancelTime, setTime) ==
  InsertEvent(gateEvents, SetValueEvent(1, setTime))

\* The disabled branch of queueChordProgression, on the gate: pending
\* automation cancelled from one reading of the clock, gate back to 1 at the
\* next reading.
ResetGate(gateEvents, cancelTime, setTime) ==
  InsertEvent(CancelScheduledValues(gateEvents, cancelTime), SetValueEvent(1, setTime))

\* A reset that sets the default detunes without cancelling what is scheduled.
ResetDetuneKeepsSchedule(detuneEvents, times) ==
  [v \in Voices |->
     assignWaveformDetune(detuneEvents[v], DefaultSemitones[VoiceIndex[v]] * 100,
                          times[VoiceIndex[v]], FALSE)]

\* A reset that puts every voice in unison with the root instead of on its
\* default semitone.
ResetDetuneToUnison(detuneEvents, times) ==
  [v \in Voices |-> assignWaveformDetune(detuneEvents[v], 0, times[VoiceIndex[v]], TRUE)]

\* The disabled branch on the detunes: each voice is given its default
\* detune, pending automation cancelled, at its own reading of the clock:
\* times holds the four readings in the order root, third, fifth, seventh.
ResetDetune(detuneEvents, times) ==
  [v \in Voices |->
     assignWaveformDetune(detuneEvents[v], DefaultSemitones[VoiceIndex[v]] * 100,
                          times[VoiceIndex[v]], TRUE)]

\* A doubling that appends the short progression to its own table entry, so
\* that the table keeps the doubled list.
DoubleShortInPlace(progressions, progressionName) ==
  LET chordsList == progressions[progressionName]
      doubled == IF Len(chordsList) <= 3 THEN chordsList \o chordsList ELSE chordsList
  IN  [chordsList |-> doubled,
       progressions |-> [progressions EXCEPT ![progressionName] = doubled]]

\* The list of chords to schedule for a progression, doubled if short, and
\* the progression table as the lookup leaves it: concat builds a new list.
DoubleShort(progressions, progressionName) ==
  LET chordsList == progressions[progressionName]
  IN  [chordsList |-> IF Len(chordsList) <= 3 THEN chordsList \o chordsList
                      ELSE chordsList,
       progressions |-> progressions]

\* The list of chords that is scheduled for a progression: doubled if short.
ChordsList(progressionIndex) ==
  DoubleShort(tables.ChordProgressions, AllProgressions[progressionIndex]).chordsList

\* A chord detune that leaves out the chord's root: the interval alone.
ChordDetuneIntervalOnly(chord, v) ==
  tables.ChordTones[chord][2][VoiceIndex[v]] * 100

\* The detune written for one voice of a chord, in cents.
ChordDetune(chord, v) ==
  (tables.ChordTones[chord][1] + tables.ChordTones[chord][2][VoiceIndex[v]]) * 100

\* A loop that opens the next chord right after the decay, without the rest.
RECURSIVE ScheduleChordsNoRest(_, _, _)
ScheduleChordsNoRest(chordsList, s, duration) ==
  IF chordsList = <<>> THEN s
  ELSE LET chord == Head(chordsList)
           decay == DurationTicks(duration) \div 8
           opened == InsertEvent(s.gate, LinearRampEvent(1, s.time))
           tuned == [v \in Voices |->
                       assignWaveformDetune(s.detune[v], ChordDetune(chord, v), s.time, FALSE)]
           decayAt == s.time + DurationTicks(duration)
           closed == InsertEvent(opened, SetTargetEvent(0, decayAt, decay))
       IN  ScheduleChordsNoRest(Tail(chordsList),
                                [time |-> decayAt + decay, gate |-> closed, detune |-> tuned],
                                duration)

\* The for-loop of queueChordProgression over the chords: s is the loop state
\* [time, gate, detune]; duration is chordDurationSeconds.
RECURSIVE ScheduleChords(_, _, _)
ScheduleChords(chordsList, s, duration) ==
  IF chordsList = <<>> THEN s
  ELSE LET chord == Head(chordsList)
           decay == DurationTicks(duration) \div 8
           rest == DurationTicks(duration) \div 16
           opened == InsertEvent(s.gate, LinearRampEvent(1, s.time))
           tuned == [v \in Voices |->
                       assignWaveformDetune(s.detune[v], ChordDetune(chord, v), s.time, FALSE)]
           decayAt == s.time + DurationTicks(duration)
           closed == InsertEvent(opened, SetTargetEvent(0, decayAt, decay))
       IN  ScheduleChords(Tail(chordsList),
                          [time |-> decayAt + decay + rest, gate |-> closed, detune |-> tuned],
                          duration)

\* A start that always continues from the end marker, however late the
\* check runs.
StartTimeAtEnd(endTime, now) == endTime

\* The jumping-off point of a progression.
StartTime(endTime, now) == Max(endTime, now)

\* A progression whose trailing rest is a quarter of a chord.
TrailingRestQuarter(duration) == DurationTicks(duration) \div 4

\* The end-of-progression pause: half of a chord.
TrailingRest(duration) == DurationTicks(duration) \div 2

\* A disabled check that resets and still re-arms the lookahead timer.
DisabledCheckRearms(same, reads) ==
  [same EXCEPT !.gate = ResetGate(same.gate, reads[1], reads[2]),
               !.detune = ResetDetune(same.detune, SubSeq(reads, 3, 6)),
               !.readings = 6,
               !.armed = 1]

\* A disabled check that also moves the end marker back to the current time.
DisabledCheckClearsEnd(same, reads) ==
  [same EXCEPT !.gate = ResetGate(same.gate, reads[1], reads[2]),
               !.detune = ResetDetune(same.detune, SubSeq(reads, 3, 6)),
               !.readings = 6,
               !.endTime = reads[1]]

\* The check with chord progression disabled: everything back to normal, no
\* timer armed. The branch reads the clock six times: for the cancel and the
\* set of the gate and for each of the four voices.
DisabledCheck(same, reads) ==
  [same EXCEPT !.gate = ResetGate(same.gate, reads[1], reads[2]),
               !.detune = ResetDetune(same.detune, SubSeq(reads, 3, 6)),
               !.readings = 6]

\* A scheduler check that never finds the end of the schedule far enough
\* ahead to wait.
FarAheadNever(endTime, now) == FALSE

\* A scheduler check that always finds the end of the schedule far ahead.
FarAheadAlways(endTime, now) == TRUE

\* The scheduled progressions end more than the lookahead after the current
\* audio time: there is nothing to schedule yet.
FarAhead(endTime, now) == endTime - LOOKAHEAD_TICKS > now

\* A scheduler check that, finding nothing to schedule yet, returns without
\* arming the next check.
queueChordProgressionWaitsOnce(ready, enabled, endTime, duration, reads, gateEvents, detuneEvents, progressionIndex) ==
  LET same == [gate |-> gateEvents, detune |-> detuneEvents, endTime |-> endTime, armed |-> 0,
               readings |-> 0, progressions |-> tables.ChordProgressions]
  IN  IF ~ready THEN same
      ELSE IF ~enabled
      THEN DisabledCheck(same, reads)
      ELSE IF FarAhead(endTime, reads[1])
      THEN [same EXCEPT !.readings = 1]
      ELSE LET done == ScheduleChords(ChordsList(progressionIndex),
                                      [time |-> StartTime(endTime, reads[2]),
                                       gate |-> gateEvents, detune |-> detuneEvents],
                                      duration)
           IN  [gate |-> done.gate, detune |-> done.detune,
                endTime |-> done.time + TrailingRest(duration), armed |-> 1,
                readings |-> 2,
                progressions |-> DoubleShort(tables.ChordProgressions,
                                             AllProgressions[progressionIndex]).progressions]

\* queueChordProgression, as a function of the fields it reads and of the
\* readings of the audio clock it makes (reads, in the order of the code):
\* the result holds the fields it may write, the number of timers it armed
\* and the number of clock readings it made.
queueChordProgression(ready, enabled, endTime, duration, reads, gateEvents, detuneEvents, progressionIndex) ==
  LET same == [gate |-> gateEvents, detune |-> detuneEvents, endTime |-> endTime, armed |-> 0,
               readings |-> 0, progressions |-> tables.ChordProgressions]
  IN  IF ~ready THEN same
      ELSE IF ~enabled
      THEN DisabledCheck(same, reads)
      ELSE IF FarAhead(endTime, reads[1])
      THEN [same EXCEPT !.readings = 1, !.armed = 1]
      ELSE LET done == ScheduleChords(ChordsList(progressionIndex),
                                      [time |-> StartTime(endTime, reads[2]),
                                       gate |-> gateEvents, detune |-> detuneEvents],
                                      duration)
           IN  [gate |-> done.gate, detune |-> done.detune,
                endTime |-> done.time + TrailingRest(duration), armed |-> 1,
                readings |-> 2,
                progressions |-> DoubleShort(tables.ChordProgressions,
                                             AllProgressions[progressionIndex]).progressions]

\* The parameters queueChordProgression writes: gate and detunes in the
\* disabled branch and in the scheduling branch, nothing otherwise.
SchedulerWrites(ready, enabled, endTime, now) ==
  IF ~ready THEN {}
  ELSE IF ~enabled THEN {"gate", "detune"}
  ELSE IF FarAhead(endTime, now) THEN {}
  ELSE {"gate", "detune"}

\* The manager is ready to schedule: line 847.
Ready == audioContext # "null" /\ startStopGain # NoNode /\ structureInitialized

\* ------------------------------------------------------- graph construction

\* createOscillators creates the square, the sawtooth and the sine
\* oscillator of a chain and, for a chain with a non-zero semitone, sets
\* the detune of each at its own reading of the clock, in that order; the
\* chains are created in the order root, third, fifth, seventh.
WaveIndex == ( "square" :> 1 ) @@ ( "sawtooth" :> 2 ) @@ ( "sine" :> 3 )
DetunedVoices == { v \in Voices : DefaultSemitones[VoiceIndex[v]] # 0 }
BuildReadings == Cardinality(Waves) * Cardinality(DetunedVoices)

\* The place, among the readings of the construction, of the reading for
\* the detune of the oscillator w of the voice v.
BuildReading(v, w) ==
  (Cardinality(Waves)
     * Cardinality({ u \in DetunedVoices : VoiceIndex[u] < VoiceIndex[v] }))
    + WaveIndex[w]

\* createOscillators: the detune events of the freshly built oscillators;
\* times holds the clock readings of the construction.
InitialDetune(times) ==
  [v \in Voices |->
     [w \in Waves |->
        IF v \in DetunedVoices
        THEN <<SetValueEvent(100 * DefaultSemitones[VoiceIndex[v]], times[BuildReading(v, w)])>>
        ELSE <<>>]]

\* A play() that rebuilds the graph on every call.
AlwaysBuilds == TRUE

\* play() builds the graph only while there is no audio context.
NeedsContext == audioContext = "null"

\* The clock readings a call of queueChordProgression makes.
ReadingsMade(ready, enabled, endTime, now) ==
  IF ~ready THEN 0
  ELSE IF ~enabled THEN 6
  ELSE IF FarAhead(endTime, now) THEN 1
  ELSE 2

\* Readings of audioContext.currentTime made one after the other while the
\* rendering thread advances the clock: a reading is at or after the one
\* before it, none is before the time now and none more than drift ticks
\* after it.
LaterReadings(now, count, drift) ==
  { reads \in [1..count -> now..(now + drift)] :
      \A i \in 1..(count - 1) : reads[i] <= reads[i + 1] }

\* The readings within one call that starts at the time now, which is the
\* first of them.
ClockReadings(now, count, drift) ==
  { reads \in LaterReadings(now, count, drift) : reads[1] = now }

\* The readings of a call of queueChordProgression on a context that exists
\* when the call begins; the clock moves only if the context is running or,
\* in play(), has just been resumed.
CallReadings(ready, enabled, running, drift) ==
  ClockReadings(currentTime,
                Max(1, ReadingsMade(ready, enabled, nextChordProgressionEndTime, currentTime)),
                IF running THEN drift ELSE 0)

\* The readings of the queueChordProgression that ends the first play():
\* the context was created earlier in the call and its clock has reached
\* the time built, the last reading of createOscillators, so the first
\* reading of the check is at or after built.
FirstReadings(enabled, built, drift) ==
  LaterReadings(built, IF enabled THEN 2 ELSE 6, (currentTime + drift) - built)

\* The progressions a call of queueChordProgression draws from: the random
\* index is drawn in the scheduling branch, after the lookahead check; a call
\* that takes another branch draws none, and reads none.
Drawn(ready, enabled, now, pool) ==
  IF ready /\ enabled /\ ~FarAhead(nextChordProgressionEndTime, now)
  THEN pool
  ELSE { CHOOSE progressionIndex \in pool : TRUE }

\* The writes of queueChordProgression on the gate and detune automation
\* gateEvents / detuneEvents, with the clock readings of the call drawn from
\* readings and the progression drawn from pool; q is the outcome of the
\* one call; every scheduling call arms one more timer, whatever is pending,
\* and the clock is left at the last reading made.
QueueChordProgression(ready, enabled, readings, gateEvents, detuneEvents, pending, pool) ==
  \E reads \in readings :
    \E progressionIndex \in Drawn(ready, enabled, reads[1], pool) :
      \E q \in { queueChordProgression(ready, enabled, nextChordProgressionEndTime,
                                       chordDurationSeconds, reads, gateEvents, detuneEvents,
                                       progressionIndex) } :
        /\ timers' = pending + q.armed
        /\ nextChordProgressionEndTime' = q.endTime
        /\ tables' = [tables EXCEPT !.ChordProgressions = q.progressions]
        /\ currentTime' = IF q.readings = 0 THEN currentTime ELSE reads[q.readings]
        /\ IF ready
           THEN /\ startStopGain' = [gain |-> q.gate]
                /\ detune' = q.detune
           ELSE UNCHANGED autoVars

\* play(): first call creates the context, builds the graph
\* (initializeAudioStructure, which reads the new context's clock once per
\* oscillator for the initial detune), cascades the stored colour and
\* starts the oscillators; every call resumes the context and runs the
\* scheduler check.
Play(pool, drift) ==
  /\ IF NeedsContext
     THEN /\ structureInitialized' = TRUE
          /\ nodes' = [n \in GraphNodes |-> nodes[n] + 1]
          /\ started' = [n \in Oscillators |-> started[n] + 1]
          /\ oscillatorGains' = [v \in Voices |-> HueComponents(hue)]
          /\ outputGain' = [v \in Voices |->
                              IF v = "root" THEN GainUnit ELSE ChordGains(saturation)]
          /\ frequency' = [v \in Voices |-> Frequency(SemitoneDistance(lightness))]
          /\ lfoChain' = [frequency |-> lfoFrequency,
                          oscillatorGain |-> WetDryBalance(lfoGain).wet,
                          constantGain |-> WetDryBalance(lfoGain).dry]
          /\ reverbChain' = [wetGain |-> WetDryBalance(reverbGain).wet,
                             dryGain |-> WetDryBalance(reverbGain).dry]
          /\ overallVolumeGainNode' = [gain |-> overallVolumeGain]
          /\ fetches' = [a \in Assets |-> fetches[a] + 1]
          /\ settled' = [a \in Assets |-> "pending"]
          /\ UNCHANGED <<stopped, periodicWave, convolverBuffer>>
          /\ written' = Parameters
          /\ \E built \in LaterReadings(currentTime, BuildReadings, drift) :
               QueueChordProgression(TRUE, isChordProgressionEnabled,
                                     FirstReadings(isChordProgressionEnabled,
                                                   built[BuildReadings], drift),
                                     <<>>, InitialDetune(built), timers, pool)
     ELSE /\ UNCHANGED <<structureInitialized, nodes, started, stopped, assetVars, voiceVars, fxVars>>
          /\ written' = SchedulerWrites(Ready, isChordProgressionEnabled,
                                        nextChordProgressionEndTime, currentTime)
          /\ QueueChordProgression(Ready, isChordProgressionEnabled,
                                   CallReadings(Ready, isChordProgressionEnabled, TRUE, drift),
                                   startStopGain.gain, detune, timers, pool)
  /\ audioContext' = "running"
  /\ lastOp' = "play"
  /\ UNCHANGED <<colorState, colourVars, mixVars, isChordProgressionEnabled, chordDurationSeconds,
                 setterCalls>>

\* A pause() that also cancels the gate automation scheduled after the
\* current time.
PauseCancels ==
  /\ audioContext' = IF audioContext # "null" THEN "suspended" ELSE audioContext
  /\ startStopGain' = IF startStopGain = NoNode THEN startStopGain
                      ELSE [gain |-> CancelScheduledValues(startStopGain.gain, currentTime + 1)]
  /\ lastOp' = "pause"
  /\ written' = {}
  /\ UNCHANGED <<colorState, tables, colourVars, mixVars, chordVars, structureInitialized, nodes, started, stopped,
                 assetVars, voiceVars, detune, fxVars, currentTime, timers, setterCalls>>

\* A pause() that suspends the context only once no asset is still loading.
PauseWaits ==
  /\ \A a \in Assets : settled[a] # "pending"
  /\ audioContext' = IF audioContext # "null" THEN "suspended" ELSE audioContext
  /\ lastOp' = "pause"
  /\ written' = {}
  /\ UNCHANGED <<colorState, tables, colourVars, mixVars, chordVars, structureInitialized, nodes, started, stopped,
                 assetVars, voiceVars, autoVars, fxVars, currentTime, timers, setterCalls>>

\* A pause() that silences the graph by stopping its oscillators.
PauseStops ==
  /\ audioContext' = IF audioContext # "null" THEN "suspended" ELSE audioContext
  /\ stopped' = IF audioContext # "null" THEN [n \in Oscillators |-> stopped[n] + 1]
                ELSE stopped
  /\ lastOp' = "pause"
  /\ written' = {}
  /\ UNCHANGED <<colorState, tables, colourVars, mixVars, chordVars, structureInitialized, nodes, started,
                 assetVars, voiceVars, autoVars, fxVars, currentTime, timers, setterCalls>>

\* pause(): suspends an existing context.
Pause ==
  /\ audioContext' = IF audioContext # "null" THEN "suspended" ELSE audioContext
  /\ lastOp' = "pause"
  /\ written' = {}
  /\ UNCHANGED <<colorState, tables, colourVars, mixVars, chordVars, structureInitialized, nodes, started, stopped,
                 assetVars, voiceVars, autoVars, fxVars, currentTime, timers, setterCalls>>

\* ---------------------------------------------------------- colour setters

\* changeHue stores hue % 360 (JavaScript remainder).
WrapHue(h) == JsRemainder(h, 360)

ChangeHue(h) ==
  /\ hue' = WrapHue(h)
  /\ oscillatorGains' = IF audioContext = "null" THEN oscillatorGains
                        ELSE [v \in Voices |-> HueComponents(hue')]
  /\ lastOp' = "changeHue"
  /\ written' = IF audioContext = "null" THEN {} ELSE {"waveformGain"}
  /\ UNCHANGED <<colorState, tables, saturation, lightness, mixVars, chordVars, lifeVars, outputGain,
                 frequency, autoVars, fxVars, currentTime, timers>>

ChangeSaturation(s) ==
  /\ saturation' = s
  /\ outputGain' = IF audioContext = "null" THEN outputGain
                   ELSE [v \in Voices |->
                           IF v = "root" THEN outputGain[v] ELSE ChordGains(saturation')]
  /\ lastOp' = "changeSaturation"
  /\ written' = IF audioContext = "null" THEN {} ELSE {"outputGain"}
  /\ UNCHANGED <<colorState, tables, hue, lightness, mixVars, chordVars, lifeVars, oscillatorGains,
                 frequency, autoVars, fxVars, currentTime, timers>>

\* A lightness setter that cancels the scheduled detunes of the oscillators
\* it retunes.
ChangeLightnessCancels(l) ==
  /\ lightness' = l
  /\ frequency' = IF audioContext = "null" THEN frequency
                  ELSE [v \in Voices |-> Frequency(SemitoneDistance(lightness'))]
  /\ detune' = IF audioContext = "null" THEN detune
               ELSE [v \in Voices |->
                       [w \in Waves |-> CancelScheduledValues(detune[v][w], currentTime)]]
  /\ lastOp' = "changeLightness"
  /\ written' = IF audioContext = "null" THEN {} ELSE {"frequency"}
  /\ UNCHANGED <<colorState, tables, hue, saturation, mixVars, chordVars, lifeVars, oscillatorGains,
                 outputGain, startStopGain, fxVars, currentTime, timers>>

ChangeLightness(l) ==
  /\ lightness' = l
  /\ frequency' = IF audioContext = "null" THEN frequency
                  ELSE [v \in Voices |-> Frequency(SemitoneDistance(lightness'))]
  /\ lastOp' = "changeLightness"
  /\ written' = IF audioContext = "null" THEN {} ELSE {"frequency"}
  /\ UNCHANGED <<colorState, tables, hue, saturation, mixVars, chordVars, lifeVars, oscillatorGains,
                 outputGain, autoVars, fxVars, currentTime, timers>>

\* ------------------------------------------------------------- mix setters

\* A setter that never returns early.
NeverTooEarly(node) == FALSE

\* A setter that always returns early.
AlwaysTooEarly(node) == TRUE

\* The early return of the mix setters: no context, no node or no structure.
NoAudioYet(node) == audioContext = "null" \/ node = NoNode \/ ~structureInitialized

ChangeVolume(volume) ==
  /\ overallVolumeGain' = clamp(volume, 0, GainUnit)
  /\ overallVolumeGainNode' = IF NoAudioYet(overallVolumeGainNode) THEN overallVolumeGainNode
                              ELSE [gain |-> overallVolumeGain']
  /\ lastOp' = "changeVolume"
  /\ written' = IF NoAudioYet(overallVolumeGainNode) THEN {} ELSE {"volume"}
  /\ UNCHANGED <<colorState, tables, colourVars, lfoFrequency, lfoGain, reverbGain, chordVars, lifeVars,
                 voiceVars, autoVars, lfoChain, reverbChain, currentTime, timers>>

\* A reverb setter that balances the LFO chain with the same intensity too.
ChangeReverbIntensityCoupled(intensity) ==
  /\ reverbGain' = clamp(intensity, 0, GainUnit)
  /\ reverbChain' = IF NoAudioYet(reverbChain) THEN reverbChain
                    ELSE [wetGain |-> WetDryBalance(reverbGain').wet,
                          dryGain |-> WetDryBalance(reverbGain').dry]
  /\ lfoChain' = IF NoAudioYet(lfoChain) THEN lfoChain
                 ELSE [lfoChain EXCEPT !.oscillatorGain = WetDryBalance(reverbGain').wet,
                                       !.constantGain = WetDryBalance(reverbGain').dry]
  /\ lastOp' = "changeReverbIntensity"
  /\ written' = IF NoAudioYet(reverbChain) THEN {} ELSE {"reverbGains"}
  /\ UNCHANGED <<colorState, tables, colourVars, lfoFrequency, lfoGain, overallVolumeGain, chordVars, lifeVars,
                 voiceVars, autoVars, overallVolumeGainNode, currentTime, timers>>

\* A reverb setter that stores the intensity and leaves the gains for a later
\* reapplication.
ChangeReverbIntensityStoresOnly(intensity) ==
  /\ reverbGain' = clamp(intensity, 0, GainUnit)
  /\ lastOp' = "changeReverbIntensity"
  /\ written' = {}
  /\ UNCHANGED <<colorState, tables, colourVars, lfoFrequency, lfoGain, overallVolumeGain, chordVars, lifeVars,
                 voiceVars, autoVars, fxVars, currentTime, timers>>

ChangeReverbIntensity(intensity) ==
  /\ reverbGain' = clamp(intensity, 0, GainUnit)
  /\ reverbChain' = IF NoAudioYet(reverbChain) THEN reverbChain
                    ELSE [wetGain |-> WetDryBalance(reverbGain').wet,
                          dryGain |-> WetDryBalance(reverbGain').dry]
  /\ lastOp' = "changeReverbIntensity"
  /\ written' = IF NoAudioYet(reverbChain) THEN {} ELSE {"reverbGains"}
  /\ UNCHANGED <<colorState, tables, colourVars, lfoFrequency, lfoGain, overallVolumeGain, chordVars, lifeVars,
                 voiceVars, autoVars, lfoChain, overallVolumeGainNode, currentTime, timers>>

ChangeLfoIntensity(intensity) ==
  /\ lfoGain' = clamp(intensity, 0, GainUnit)
  /\ lfoChain' = IF NoAudioYet(lfoChain) THEN lfoChain
                 ELSE [lfoChain EXCEPT !.oscillatorGain = WetDryBalance(lfoGain').wet,
                                       !.constantGain = WetDryBalance(lfoGain').dry]
  /\ lastOp' = "changeLfoIntensity"
  /\ written' = IF NoAudioYet(lfoChain) THEN {} ELSE {"lfoGains"}
  /\ UNCHANGED <<colorState, tables, colourVars, lfoFrequency, reverbGain, overallVolumeGain, chordVars, lifeVars,
                 voiceVars, autoVars, reverbChain, overallVolumeGainNode, currentTime, timers>>

ChangeLfoFrequency(f) ==
  /\ lfoFrequency' = clamp(f, 1, 30)
  /\ lfoChain' = IF NoAudioYet(lfoChain) THEN lfoChain
                 ELSE [lfoChain EXCEPT !.frequency = lfoFrequency']
  /\ lastOp' = "changeLfoFrequency"
  /\ written' = IF NoAudioYet(lfoChain) THEN {} ELSE {"lfoFrequency"}
  /\ UNCHANGED <<colorState, tables, colourVars, lfoGain, reverbGain, overallVolumeGain, chordVars, lifeVars,
                 voiceVars, autoVars, reverbChain, overallVolumeGainNode, currentTime, timers>>

\* ----------------------------------------------------------- chord setters

ChangeChordProgression(isEnabled, pool, drift) ==
  /\ isChordProgressionEnabled' = isEnabled
  /\ IF isChordProgressionEnabled # isEnabled
     THEN QueueChordProgression(Ready, isEnabled,
                                CallReadings(Ready, isEnabled, audioContext = "running", drift),
                                IF Ready THEN startStopGain.gain ELSE <<>>,
                                detune, timers, pool)
     ELSE UNCHANGED <<nextChordProgressionEndTime, autoVars, timers, tables, currentTime>>
  /\ lastOp' = "changeChordProgression"
  /\ written' = IF isChordProgressionEnabled # isEnabled
                THEN SchedulerWrites(Ready, isEnabled, nextChordProgressionEndTime, currentTime)
                ELSE {}
  /\ UNCHANGED <<colorState, colourVars, mixVars, chordDurationSeconds, lifeVars, voiceVars, fxVars,
                 setterCalls>>

\* A duration setter that ends the running progression at the current time,
\* so that the new duration is used at once.
ChangeChordDurationRestarts(durationSeconds) ==
  /\ chordDurationSeconds' = clamp(durationSeconds, DurationUnitsPerSecond \div 4, 10 * DurationUnitsPerSecond)
  /\ nextChordProgressionEndTime' = Min(nextChordProgressionEndTime, currentTime)
  /\ lastOp' = "changeChordDuration"
  /\ written' = {}
  /\ UNCHANGED <<colorState, tables, colourVars, mixVars, isChordProgressionEnabled,
                 lifeVars, voiceVars, autoVars, fxVars, currentTime, timers, setterCalls>>

ChangeChordDuration(durationSeconds) ==
  /\ chordDurationSeconds' = clamp(durationSeconds, DurationUnitsPerSecond \div 4, 10 * DurationUnitsPerSecond)
  /\ lastOp' = "changeChordDuration"
  /\ written' = {}
  /\ UNCHANGED <<colorState, tables, colourVars, mixVars, isChordProgressionEnabled, nextChordProgressionEndTime,
                 lifeVars, voiceVars, autoVars, fxVars, currentTime, timers, setterCalls>>

\* ------------------------------------------------------- sound interface

\* What no method of the manager and no clock step touches when only the
\* component's own state changes.
managerVars == <<colourVars, mixVars, chordVars, lifeVars, voiceVars, autoVars, fxVars,
                 colorState, tables, envVars>>

\* A whole percentage of a slider divided by 100, in 1/GainUnit.
Hundredths(whole) == (whole * GainUnit) \div 100

\* The value of the chord duration slider, in steps of a quarter second,
\* in quarter seconds.
QuarterSeconds(quarters) == (quarters * DurationUnitsPerSecond) \div 4

\* The panel button shows and hides the play button and the settings.
PanelButtonClicked ==
  /\ soundInterface' = [soundInterface EXCEPT !.isInterfaceExpanded = ~@]
  /\ lastOp' = "panelButtonClicked"
  /\ written' = {}
  /\ UNCHANGED managerVars

\* A play button that only starts playback.
PlayButtonOnlyPlays(pool, drift) ==
  /\ soundInterface.isInterfaceExpanded
  /\ Play(pool, drift)
  /\ soundInterface' = [soundInterface EXCEPT !.isPlaying = ~@]

\* The play button pauses when the component is playing, plays otherwise,
\* and flips the component's flag.
PlayButtonClicked(pool, drift) ==
  /\ soundInterface.isInterfaceExpanded
  /\ IF soundInterface.isPlaying THEN Pause ELSE Play(pool, drift)
  /\ soundInterface' = [soundInterface EXCEPT !.isPlaying = ~@]

VolumeSliderChanged(wholeVolume) ==
  /\ soundInterface.isInterfaceExpanded
  /\ soundInterface' = [soundInterface EXCEPT !.currentVolume = wholeVolume]
  /\ ChangeVolume(Hundredths(wholeVolume))
  /\ UNCHANGED setterCalls

ReverbIntensityChanged(wholeIntensity) ==
  /\ soundInterface.isInterfaceExpanded
  /\ soundInterface' = [soundInterface EXCEPT !.currentReverbIntensity = wholeIntensity]
  /\ ChangeReverbIntensity(Hundredths(wholeIntensity))
  /\ UNCHANGED setterCalls

LfoIntensityChanged(wholeIntensity) ==
  /\ soundInterface.isInterfaceExpanded
  /\ soundInterface' = [soundInterface EXCEPT !.currentLfoIntensity = wholeIntensity]
  /\ ChangeLfoIntensity(Hundredths(wholeIntensity))
  /\ UNCHANGED setterCalls

LfoFrequencyChanged(wholeFrequency) ==
  /\ soundInterface.isInterfaceExpanded
  /\ soundInterface' = [soundInterface EXCEPT !.currentLfoFrequency = wholeFrequency]
  /\ ChangeLfoFrequency(wholeFrequency)
  /\ UNCHANGED setterCalls

\* The chord button flips the component's flag and passes the new status on.
ChordButtonClicked(pool, drift) ==
  LET newStatus == ~soundInterface.isChordProgressionEnabled
  IN  /\ soundInterface.isInterfaceExpanded
      /\ soundInterface' = [soundInterface EXCEPT !.isChordProgressionEnabled = newStatus]
      /\ ChangeChordProgression(newStatus, pool, drift)

ChordDurationChanged(quarters) ==
  LET chordDuration == QuarterSeconds(quarters)
  IN  /\ soundInterface.isInterfaceExpanded
      /\ soundInterface' = [soundInterface EXCEPT !.currentChordDuration = chordDuration]
      /\ ChangeChordDuration(chordDuration)

\* ------------------------------------------------------------ environment

\* A pending setTimeout callback runs queueChordProgression.
TimerFires(pool, drift) ==
  /\ timers > 0
  /\ QueueChordProgression(Ready, isChordProgressionEnabled,
                           CallReadings(Ready, isChordProgressionEnabled,
                                        audioContext = "running", drift),
                           startStopGain.gain, detune, timers - 1, pool)
  /\ lastOp' = "timer"
  /\ written' = SchedulerWrites(Ready, isChordProgressionEnabled,
                              nextChordProgressionEndTime, currentTime)
  /\ UNCHANGED <<colorState, colourVars, mixVars, isChordProgressionEnabled, chordDurationSeconds,
                 lifeVars, voiceVars, fxVars, setterCalls>>

\* How a fetch can end: the payload is applied, the fetch or its decoding is
\* rejected, or (wavetables) the JSON lacks the real/imag arrays.
Outcomes(asset) ==
  IF asset \in Waves THEN {"loaded", "failed", "malformed"} ELSE {"loaded", "failed"}

\* A completion that requests the asset again after a failure.
AssetSettlesRetries(asset, outcome) ==
  /\ settled[asset] = "pending"
  /\ outcome \in Outcomes(asset)
  /\ settled' = [settled EXCEPT ![asset] = IF outcome = "loaded" THEN outcome ELSE "pending"]
  /\ fetches' = [fetches EXCEPT ![asset] = IF outcome = "loaded" THEN @ ELSE @ + 1]
  /\ periodicWave' = IF outcome = "loaded" /\ asset \in Waves /\ audioContext # "null"
                     THEN [periodicWave EXCEPT ![asset] = TRUE] ELSE periodicWave
  /\ convolverBuffer' = IF outcome = "loaded" /\ asset = "impulse" /\ reverbChain # NoNode
                        THEN TRUE ELSE convolverBuffer
  /\ lastOp' = "assetSettles"
  /\ written' = {}
  /\ UNCHANGED <<colorState, tables, colourVars, mixVars, chordVars, structureInitialized, audioContext, nodes,
                 started, stopped, voiceVars, autoVars, fxVars, envVars>>

\* The promise chain of one fetch of initializeAudioStructure settles: a
\* loaded wavetable becomes the periodic wave of the oscillators of its type
\* (assignWaveformTable), a loaded impulse response the buffer of the
\* convolver; a failure is logged.
AssetSettles(asset, outcome) ==
  /\ settled[asset] = "pending"
  /\ outcome \in Outcomes(asset)
  /\ settled' = [settled EXCEPT ![asset] = outcome]
  /\ periodicWave' = IF outcome = "loaded" /\ asset \in Waves /\ audioContext # "null"
                     THEN [periodicWave EXCEPT ![asset] = TRUE] ELSE periodicWave
  /\ convolverBuffer' = IF outcome = "loaded" /\ asset = "impulse" /\ reverbChain # NoNode
                        THEN TRUE ELSE convolverBuffer
  /\ lastOp' = "assetSettles"
  /\ written' = {}
  /\ UNCHANGED <<colorState, tables, colourVars, mixVars, chordVars, structureInitialized, audioContext, nodes,
                 started, stopped, fetches, voiceVars, autoVars, fxVars, envVars>>

\* The events of a parameter that rendering up to time now still needs: the
\* last event at or before now, which fixes the current value, and the
\* events after now.  The rendering thread consumes the events before it.
Rendered(events, now) ==
  LET past == Cardinality({i \in 1..Len(events) : events[i].time <= now})
  IN  SubSeq(events, Max(past, 1), Len(events))

\* The audio clock of a running context advances; the rendering thread
\* consumes the automation events it has passed.
ClockAdvances(step, limit) ==
  /\ audioContext = "running"
  /\ currentTime + step <= limit
  /\ currentTime' = currentTime + step
  /\ startStopGain' = [gain |-> Rendered(startStopGain.gain, currentTime')]
  /\ detune' = [v \in Voices |-> [w \in Waves |-> Rendered(detune[v][w], currentTime')]]
  /\ lastOp' = "clock"
  /\ written' = {}
  /\ UNCHANGED <<colorState, tables, colourVars, mixVars, chordVars, lifeVars, voiceVars, fxVars, timers, setterCalls>>

\* ------------------------------------------------------------ colour store

\* colorSlice's adjustHue reducer: the payload's remainder is added and the
\* sum is moved back by one turn when it is below 0 or above 360.
AdjustHue(payload) ==
  LET newHue == colorState.hue + JsRemainder(payload, 360)
  IN  /\ colorState' = [colorState EXCEPT !.hue = IF newHue < 0 THEN newHue + 360
                                                  ELSE IF newHue > 360 THEN newHue - 360
                                                  ELSE newHue]
      /\ lastOp' = "adjustHue"
      /\ written' = {}
      /\ UNCHANGED <<tables, colourVars, mixVars, chordVars, lifeVars, voiceVars, autoVars, fxVars,
                     envVars>>

\* colorSlice's adjustSaturation reducer: the sum is kept within [0, 100].
AdjustSaturation(payload) ==
  /\ colorState' = [colorState EXCEPT
                      !.saturation = Min(100, Max(0, colorState.saturation + payload))]
  /\ lastOp' = "adjustSaturation"
  /\ written' = {}
  /\ UNCHANGED <<tables, colourVars, mixVars, chordVars, lifeVars, voiceVars, autoVars, fxVars,
                 envVars>>

\* colorSlice's adjustLightness reducer: the sum is kept within [0, 100].
AdjustLightness(payload) ==
  /\ colorState' = [colorState EXCEPT
                      !.lightness = Min(100, Max(0, colorState.lightness + payload))]
  /\ lastOp' = "adjustLightness"
  /\ written' = {}
  /\ UNCHANGED <<tables, colourVars, mixVars, chordVars, lifeVars, voiceVars, autoVars, fxVars,
                 envVars>>

\* ------------------------------------------------------------ the machine

\* Inputs of the full machine: one four-chord progression, one doubled
\* three-chord progression and one with sevenths; durations below the
\* minimum, a quarter and a half second; one out-of-domain value per setter.
ProgressionPool == {9, 15}
ClockSteps == {LOOKAHEAD_TICKS}
DurationInputs == {0}

HueInputs == {0 - 60}
SaturationInputs == {0 - 20, 150}
LightnessInputs == {0 - 10}
VolumeInputs == {150}
ReverbInputs == {50}
LfoIntensityInputs == {0 - 5}
LfoFrequencyInputs == {40}

\* One more call of a colour or mix setter, within the explored number.
SetterCalled ==
  /\ setterCalls < MaxSetterCalls
  /\ setterCalls' = setterCalls + 1

Next ==
  \/ Play(ProgressionPool, 0) /\ TimersBounded /\ UNCHANGED soundInterface
  \/ Pause /\ UNCHANGED soundInterface
  \/ \E h \in HueInputs : SetterCalled /\ ChangeHue(h) /\ UNCHANGED soundInterface
  \/ \E s \in SaturationInputs : SetterCalled /\ ChangeSaturation(s) /\ UNCHANGED soundInterface
  \/ \E l \in LightnessInputs : SetterCalled /\ ChangeLightness(l) /\ UNCHANGED soundInterface
  \/ \E v \in VolumeInputs : SetterCalled /\ ChangeVolume(v) /\ UNCHANGED soundInterface
  \/ \E i \in ReverbInputs : SetterCalled /\ ChangeReverbIntensity(i) /\ UNCHANGED soundInterface
  \/ \E i \in LfoIntensityInputs : SetterCalled /\ ChangeLfoIntensity(i) /\ UNCHANGED soundInterface
  \/ \E f \in LfoFrequencyInputs : SetterCalled /\ ChangeLfoFrequency(f) /\ UNCHANGED soundInterface
  \/ \E b \in BOOLEAN : ChangeChordProgression(b, ProgressionPool, 0) /\ TimersBounded /\ UNCHANGED soundInterface
  \/ \E d \in DurationInputs : ChangeChordDuration(d) /\ UNCHANGED soundInterface
  \/ TimerFires(ProgressionPool, 0) /\ TimersBounded /\ UNCHANGED soundInterface
  \/ \E step \in ClockSteps : ClockAdvances(step, ShortTime) /\ UNCHANGED soundInterface

Spec == Init /\ [][Next]_vars

\* The scheduler on a longer stretch of audio time, without the colour and
\* mix setters.
NextScheduler ==
  \/ Play(ProgressionPool, 0) /\ TimersBounded /\ UNCHANGED soundInterface
  \/ Pause /\ UNCHANGED soundInterface
  \/ \E b \in BOOLEAN : ChangeChordProgression(b, ProgressionPool, 0) /\ TimersBounded /\ UNCHANGED soundInterface
  \/ \E d \in DurationInputs : ChangeChordDuration(d) /\ UNCHANGED soundInterface
  \/ TimerFires(ProgressionPool, 0) /\ TimersBounded /\ UNCHANGED soundInterface
  \/ \E step \in ClockSteps : ClockAdvances(step, MaxTime) /\ UNCHANGED soundInterface

SpecScheduler == Init /\ [][NextScheduler]_vars

\* The scheduler on a clock that moves while a call runs: the rendering
\* thread advances the clock between two readings of one call, by at most
\* ClockDrift ticks in a run; the readings of the first play() are one for
\* each oscillator that createOscillators detunes and those of the check
\* that follows. The clock steps are whole lookaheads, so the remainder of
\* the clock is what it has drifted so far.
ClockDrift == 1
DriftTime == 16
DriftProgressionPool == {9}

DriftLeft == Max(0, ClockDrift - (currentTime % LOOKAHEAD_TICKS))

NextDrift ==
  \/ Play(DriftProgressionPool, DriftLeft) /\ TimersBounded /\ UNCHANGED soundInterface
  \/ Pause /\ UNCHANGED soundInterface
  \/ \E b \in BOOLEAN : ChangeChordProgression(b, DriftProgressionPool, DriftLeft) /\ TimersBounded /\ UNCHANGED soundInterface
  \/ TimerFires(DriftProgressionPool, DriftLeft) /\ TimersBounded /\ UNCHANGED soundInterface
  \/ \E step \in ClockSteps : ClockAdvances(step, DriftTime) /\ UNCHANGED soundInterface

SpecDrift == Init /\ [][NextDrift]_vars

\* The scheduler with a chord duration that changes between progressions:
\* a quarter and a half second.
BoundaryDurationInputs == {0, DurationUnitsPerSecond \div 2}

NextBoundary ==
  \/ Play(ProgressionPool, 0) /\ TimersBounded /\ UNCHANGED soundInterface
  \/ Pause /\ UNCHANGED soundInterface
  \/ \E b \in BOOLEAN : ChangeChordProgression(b, ProgressionPool, 0) /\ TimersBounded /\ UNCHANGED soundInterface
  \/ \E d \in BoundaryDurationInputs : ChangeChordDuration(d) /\ UNCHANGED soundInterface
  \/ TimerFires(ProgressionPool, 0) /\ TimersBounded /\ UNCHANGED soundInterface
  \/ \E step \in ClockSteps : ClockAdvances(step, MaxTime) /\ UNCHANGED soundInterface

SpecBoundary == Init /\ [][NextBoundary]_vars

\* The mix setters and the chord duration on their own, each with arguments
\* below, at, inside and above its domain (intensities in 1/GainUnit,
\* frequencies in Hz, durations in quarter seconds).
MixIntensityInputs == {0 - 50, 0, 50, GainUnit, 150}
MixFrequencyInputs == {0 - 5, 1, 15, 30, 45}
MixDurationInputs == {0, DurationUnitsPerSecond \div 4, DurationUnitsPerSecond,
                      10 * DurationUnitsPerSecond, 16 * DurationUnitsPerSecond}

NextMix ==
  \/ Play(ProgressionPool, 0) /\ TimersBounded /\ UNCHANGED soundInterface
  \/ \E v \in MixIntensityInputs : ChangeVolume(v) /\ UNCHANGED setterCalls /\ UNCHANGED soundInterface
  \/ \E i \in MixIntensityInputs : ChangeReverbIntensity(i) /\ UNCHANGED setterCalls /\ UNCHANGED soundInterface
  \/ \E i \in MixIntensityInputs : ChangeLfoIntensity(i) /\ UNCHANGED setterCalls /\ UNCHANGED soundInterface
  \/ \E f \in MixFrequencyInputs : ChangeLfoFrequency(f) /\ UNCHANGED setterCalls /\ UNCHANGED soundInterface
  \/ \E d \in MixDurationInputs : ChangeChordDuration(d) /\ UNCHANGED soundInterface

SpecMix == Init /\ [][NextMix]_vars

\* The seven colour and mix setters together, called any number of times
\* before and after play(): two arguments for each.
SetterHueInputs == {180, 420}
SetterSaturationInputs == {0 - 20, 150}
SetterLightnessInputs == {0 - 10, 130}
SetterVolumeInputs == {0 - 50, 150}
SetterReverbInputs == {50, 150}
SetterLfoIntensityInputs == {0 - 5, 150}
SetterLfoFrequencyInputs == {0 - 5, 45}

NextSetters ==
  \/ Play(ProgressionPool, 0) /\ TimersBounded /\ UNCHANGED soundInterface
  \/ \E h \in SetterHueInputs : ChangeHue(h) /\ UNCHANGED setterCalls /\ UNCHANGED soundInterface
  \/ \E s \in SetterSaturationInputs : ChangeSaturation(s) /\ UNCHANGED setterCalls /\ UNCHANGED soundInterface
  \/ \E l \in SetterLightnessInputs : ChangeLightness(l) /\ UNCHANGED setterCalls /\ UNCHANGED soundInterface
  \/ \E v \in SetterVolumeInputs : ChangeVolume(v) /\ UNCHANGED setterCalls /\ UNCHANGED soundInterface
  \/ \E i \in SetterReverbInputs : ChangeReverbIntensity(i) /\ UNCHANGED setterCalls /\ UNCHANGED soundInterface
  \/ \E i \in SetterLfoIntensityInputs : ChangeLfoIntensity(i) /\ UNCHANGED setterCalls /\ UNCHANGED soundInterface
  \/ \E f \in SetterLfoFrequencyInputs : ChangeLfoFrequency(f) /\ UNCHANGED setterCalls /\ UNCHANGED soundInterface

SpecSetters == Init /\ [][NextSetters]_vars

\* The asset completions interleaved with play, pause, the reverb setter and
\* the scheduler, at the audio time of the first play().
AssetReverbInputs == {50}
AssetProgressionPool == {9}

NextAssets ==
  \/ Play(AssetProgressionPool, 0) /\ TimersBounded /\ UNCHANGED soundInterface
  \/ Pause /\ UNCHANGED soundInterface
  \/ \E i \in AssetReverbInputs : SetterCalled /\ ChangeReverbIntensity(i) /\ UNCHANGED soundInterface
  \/ \E b \in BOOLEAN : ChangeChordProgression(b, AssetProgressionPool, 0) /\ TimersBounded /\ UNCHANGED soundInterface
  \/ TimerFires(AssetProgressionPool, 0) /\ TimersBounded /\ UNCHANGED soundInterface
  \/ \E a \in Assets : \E o \in {"loaded", "failed", "malformed"} : AssetSettles(a, o) /\ UNCHANGED soundInterface

SpecAssets == Init /\ [][NextAssets]_vars

\* The loads of the four assets, each succeeding or failing, interleaved with
\* play, pause, the reverb setter, the enabling of chord mode and the timer.
NextCompletions ==
  \/ Play(AssetProgressionPool, 0) /\ TimersBounded /\ UNCHANGED soundInterface
  \/ Pause /\ UNCHANGED soundInterface
  \/ \E i \in AssetReverbInputs : SetterCalled /\ ChangeReverbIntensity(i) /\ UNCHANGED soundInterface
  \/ ChangeChordProgression(TRUE, AssetProgressionPool, 0) /\ TimersBounded /\ UNCHANGED soundInterface
  \/ TimerFires(AssetProgressionPool, 0) /\ TimersBounded /\ UNCHANGED soundInterface
  \/ \E a \in Assets : \E o \in {"loaded", "failed"} : AssetSettles(a, o) /\ UNCHANGED soundInterface

SpecCompletions == Init /\ [][NextCompletions]_vars

\* The scheduler over several progressions of two-second chords: the audio
\* clock advances in steps of four seconds up to LiveTime. A running context
\* renders on, so the clock step is weakly fair; that armed timers fire is
\* the premise of the liveness property.
LiveTime == 768
LiveProgressionPool == {15}
LiveClockSteps == {4 * TicksPerSecond}

NextLive ==
  \/ Play(LiveProgressionPool, 0) /\ TimersBounded /\ UNCHANGED soundInterface
  \/ Pause /\ UNCHANGED soundInterface
  \/ \E b \in BOOLEAN : ChangeChordProgression(b, LiveProgressionPool, 0) /\ TimersBounded /\ UNCHANGED soundInterface
  \/ TimerFires(LiveProgressionPool, 0) /\ TimersBounded /\ UNCHANGED soundInterface
  \/ \E step \in LiveClockSteps : ClockAdvances(step, LiveTime) /\ UNCHANGED soundInterface

SpecLive ==
  /\ Init
  /\ [][NextLive]_vars
  /\ WF_vars(\E step \in LiveClockSteps :
               ClockAdvances(step, LiveTime) /\ UNCHANGED soundInterface)

\* The colour store on its own: adjustHue with payloads of either sign,
\* inside and beyond one turn; adjustSaturation and adjustLightness with
\* payloads of either sign that reach both ends of the scale.
HuePayloads == {0 - 725, 0 - 361, 0 - 360, 0 - 1, 0, 1, 60, 359, 360, 361, 725}
SaturationPayloads == {0 - 60, 60}
LightnessPayloads == {0 - 60, 60}

NextColorStore ==
  \/ \E payload \in HuePayloads : AdjustHue(payload) /\ UNCHANGED soundInterface
  \/ \E payload \in SaturationPayloads : AdjustSaturation(payload) /\ UNCHANGED soundInterface
  \/ \E payload \in LightnessPayloads : AdjustLightness(payload) /\ UNCHANGED soundInterface

SpecColorStore == Init /\ [][NextColorStore]_vars

\* The scheduler over the whole progression table, at the audio time of the
\* first play().
EveryProgression == 1..Len(AllProgressions)

NextProgressions ==
  \/ Play(EveryProgression, 0) /\ TimersBounded /\ UNCHANGED soundInterface
  \/ \E b \in BOOLEAN : ChangeChordProgression(b, EveryProgression, 0) /\ TimersBounded /\ UNCHANGED soundInterface
  \/ \E d \in DurationInputs : ChangeChordDuration(d) /\ UNCHANGED soundInterface
  \/ TimerFires(EveryProgression, 0) /\ TimersBounded /\ UNCHANGED soundInterface

SpecProgressions == Init /\ [][NextProgressions]_vars

\* The hue mapper on its own: every whole hue from -HueSpan to 360 + HueSpan.
HueSpan == 70

NextHue ==
  \/ Play(ProgressionPool, 0) /\ TimersBounded /\ UNCHANGED soundInterface
  \/ \E h \in (0 - HueSpan)..(360 + HueSpan) : ChangeHue(h) /\ UNCHANGED setterCalls /\ UNCHANGED soundInterface

SpecHue == Init /\ [][NextHue]_vars

\* The lightness mapper on its own: every whole lightness from
\* -LightnessMargin to 100 + LightnessMargin.
LightnessMargin == 30

NextLightness ==
  \/ Play(ProgressionPool, 0) /\ TimersBounded /\ UNCHANGED soundInterface
  \/ \E l \in (0 - LightnessMargin)..(100 + LightnessMargin) :
       ChangeLightness(l) /\ UNCHANGED setterCalls /\ UNCHANGED soundInterface

SpecLightness == Init /\ [][NextLightness]_vars

\* The component driving the manager: the panel, play and chord buttons and
\* the five sliders at the ends of their ranges, with the timer and the
\* audio clock.
InterfaceVolumes == {0, 100}
InterfaceReverbIntensities == {100}
InterfaceLfoIntensities == {0}
InterfaceLfoFrequencies == {30}
InterfaceChordDurations == {40}

NextInterface ==
  \/ PanelButtonClicked
  \/ PlayButtonClicked(AssetProgressionPool, 0) /\ TimersBounded
  \/ \E v \in InterfaceVolumes : VolumeSliderChanged(v)
  \/ \E i \in InterfaceReverbIntensities : ReverbIntensityChanged(i)
  \/ \E i \in InterfaceLfoIntensities : LfoIntensityChanged(i)
  \/ \E f \in InterfaceLfoFrequencies : LfoFrequencyChanged(f)
  \/ ChordButtonClicked(AssetProgressionPool, 0) /\ TimersBounded
  \/ \E q \in InterfaceChordDurations : ChordDurationChanged(q)
  \/ TimerFires(AssetProgressionPool, 0) /\ TimersBounded /\ UNCHANGED soundInterface
  \/ \E step \in ClockSteps : ClockAdvances(step, ShortTime) /\ UNCHANGED soundInterface

SpecInterface == Init /\ [][NextInterface]_vars

\* ------------------------------------------------------------ properties

\* The automation events of a parameter that lie after the time now.
Pending(events, now) == { i \in 1..Len(events) : events[i].time > now }

\* No gate or detune automation is pending after the current audio time.
NothingPending ==
  /\ Pending(startStopGain.gain, currentTime) = {}
  /\ \A v \in Voices : \A w \in Waves : Pending(detune[v][w], currentTime) = {}

LastEvent(events) == events[Len(events)]

\* The gate is set to 1 and the detunes to 0/400/700/0 cents, each as the
\* last event of its parameter, by a call during which the clock moved: the
\* gate was set at an earlier reading than the seventh's detune, which was
\* set at the current audio time.
ResetNow ==
  /\ startStopGain.gain # <<>>
  /\ LastEvent(startStopGain.gain) = SetValueEvent(1, LastEvent(startStopGain.gain).time)
  /\ LastEvent(startStopGain.gain).time < currentTime
  /\ \A v \in Voices : \A w \in Waves :
       /\ detune[v][w] # <<>>
       /\ LastEvent(detune[v][w]) =
            SetValueEvent((( "root" :> 0 ) @@ ( "third" :> 400 ) @@ ( "fifth" :> 700 )
                            @@ ( "seventh" :> 0 ))[v], LastEvent(detune[v][w]).time)
  /\ \A w \in Waves : LastEvent(detune["seventh"][w]).time = currentTime

\* The call has reset the gate and the detunes, each as the last event of
\* its parameter and at a clock reading of the call: the gate is set to 1,
\* then the three oscillators of the root, of the third, of the fifth and
\* of the seventh voice are detuned to 0/400/700/0 cents, the oscillators
\* of one voice at one time, at times that do not decrease from the audio
\* time at which the call began to the audio time on return.
ResetInCall ==
  LET at(events) == LastEvent(events).time
      cents == ( "root" :> 0 ) @@ ( "third" :> 400 ) @@ ( "fifth" :> 700 ) @@ ( "seventh" :> 0 )
      voiceAt(v) == at(detune'[v]["square"])
  IN  /\ startStopGain'.gain # <<>>
      /\ LastEvent(startStopGain'.gain) = SetValueEvent(1, at(startStopGain'.gain))
      /\ \A v \in Voices : \A w \in Waves :
           /\ detune'[v][w] # <<>>
           /\ LastEvent(detune'[v][w]) = SetValueEvent(cents[v], voiceAt(v))
      /\ currentTime <= at(startStopGain'.gain)
      /\ at(startStopGain'.gain) <= voiceAt("root")
      /\ voiceAt("root") <= voiceAt("third")
      /\ voiceAt("third") <= voiceAt("fifth")
      /\ voiceAt("fifth") <= voiceAt("seventh")
      /\ voiceAt("seventh") = currentTime'

\* A chord was started before the current audio time and is the latest gate
\* opening rendered.
ChordStartedEarlier(events, now) ==
  \E i \in 1..Len(events) :
    events[i].type = "linearRampToValueAtTime" /\ events[i].time < now

\* C1: when changeChordProgression(false) turns chord mode off on an existing
\* graph, then on return no detune or gate automation later than the current
\* audio time is pending, the gate is set to 1 and the detunes are set to
\* 0/400/700/0 cents, each at the audio time the call read for it.
C1_DisableResets ==
  [][ (isChordProgressionEnabled /\ ~isChordProgressionEnabled' /\ structureInitialized)
        => (NothingPending' /\ ResetInCall) ]_vars

\* C1 witness: chord mode was just turned off while a chord started earlier
\* was sounding, and the clock moved during the call: the gate was set at an
\* earlier reading than the seventh's detune.
C1_Witness ==
  /\ lastOp = "changeChordProgression"
  /\ ~isChordProgressionEnabled
  /\ structureInitialized
  /\ currentTime > 0
  /\ ChordStartedEarlier(startStopGain.gain, currentTime)
  /\ ResetNow

\* C2: in every reachable state in which the graph exists and chord mode is
\* disabled, no detune or gate event later than the current audio time is
\* pending.
C2_NoZombieChord ==
  (structureInitialized /\ ~isChordProgressionEnabled) => NothingPending

\* C2 witness: chord mode is off on an existing graph although a progression
\* had been scheduled to end later than now and a lookahead timer is pending.
C2_Witness ==
  /\ structureInitialized
  /\ ~isChordProgressionEnabled
  /\ nextChordProgressionEndTime > currentTime
  /\ timers > 0
  /\ setterCalls > 0

\* C3: a lookahead timer that fires while chord mode is disabled schedules no
\* chord, performs the full reset and arms no further timer.
C3_StaleTimerResets ==
  [][ (lastOp' = "timer" /\ ~isChordProgressionEnabled)
        => /\ timers' = timers - 1
           /\ nextChordProgressionEndTime' = nextChordProgressionEndTime
           /\ NothingPending'
           /\ ResetInCall ]_vars

\* C3 witness: a timer has fired with chord mode disabled while another timer,
\* armed before the disable as well, is still pending; the clock moved
\* between the reading for the gate and the reading for the fifth's detune.
C3_Witness ==
  /\ lastOp = "timer"
  /\ ~isChordProgressionEnabled
  /\ timers = 1
  /\ nextChordProgressionEndTime > 0
  /\ LastEvent(startStopGain.gain) = SetValueEvent(1, currentTime - 1)
  /\ \A w \in Waves : LastEvent(detune["fifth"][w]) = SetValueEvent(700, currentTime)

\* C4: the graph is built exactly once, by the first play(): every node role
\* exists once from then on, with four voices of three oscillators each.
C4_GraphBuiltOnce ==
  /\ \A n \in GraphNodes : nodes[n] = IF audioContext = "null" THEN 0 ELSE 1
  /\ structureInitialized <=> audioContext # "null"
  /\ structureInitialized =>
       /\ DOMAIN outputGain = Voices
       /\ \A v \in Voices :
            Cardinality({ n \in GraphNodes :
                            n[1] = v /\ n[3] = "oscillator" /\ nodes[n] = 1 }) = 3
       /\ Cardinality({ n \in GraphNodes :
                          n[1] \in Voices /\ n[3] = "oscillator" /\ nodes[n] = 1 }) = 12

\* C4 witness: play() has returned at a later audio time than that of the
\* first play(), so it is a later call.
C4_Witness ==
  /\ lastOp = "play"
  /\ currentTime > 0
  /\ \A n \in GraphNodes : nodes[n] = 1

\* C5: before the first play() no call creates a graph node, writes
\* automation or arms a timer.
C5_NoOpBeforePlay ==
  audioContext = "null" =>
    /\ \A n \in GraphNodes : nodes[n] = 0
    /\ \A n \in Oscillators : started[n] = 0
    /\ ~structureInitialized
    /\ oscillatorGains = NoNode /\ outputGain = NoNode /\ frequency = NoNode
    /\ detune = NoNode /\ startStopGain = NoNode
    /\ lfoChain = NoNode /\ reverbChain = NoNode /\ overallVolumeGainNode = NoNode
    /\ timers = 0
    /\ nextChordProgressionEndTime = 0

\* C5 witness: before the first play(), chord mode has been enabled, the chord
\* duration changed and a colour or mix setter called.
C5_Witness ==
  /\ audioContext = "null"
  /\ isChordProgressionEnabled
  /\ DurationTicks(chordDurationSeconds) # 2 * TicksPerSecond
  /\ setterCalls > 0
  /\ lastOp = "pause"

\* C6: for every hue in [0,360) the three weights written to the voices are in
\* [0,1]; at 0/120/240 exactly the square/sawtooth/sine weight is 1 and the
\* others 0; at 60/180/300 the two adjacent weights are 0.5 and the third 0.
C6_HueWeights ==
  (audioContext # "null" /\ hue >= 0 /\ hue < 360) =>
    \A v \in Voices :
      LET w == oscillatorGains[v]
      IN  /\ \A c \in Waves : 0 <= w[c] /\ w[c] <= WeightUnit
          /\ hue = 0 => w = [square |-> WeightUnit, sawtooth |-> 0, sine |-> 0]
          /\ hue = 120 => w = [square |-> 0, sawtooth |-> WeightUnit, sine |-> 0]
          /\ hue = 240 => w = [square |-> 0, sawtooth |-> 0, sine |-> WeightUnit]
          /\ hue = 60 => (2 * w.square = WeightUnit /\ 2 * w.sawtooth = WeightUnit /\ w.sine = 0)
          /\ hue = 180 => (w.square = 0 /\ 2 * w.sawtooth = WeightUnit /\ 2 * w.sine = WeightUnit)
          /\ hue = 300 => (2 * w.square = WeightUnit /\ w.sawtooth = 0 /\ 2 * w.sine = WeightUnit)

\* C6 witness: changeHue(180) has written the cyan blend to an existing graph.
C6_Witness ==
  /\ audioContext # "null"
  /\ lastOp = "changeHue"
  /\ hue = 180
  /\ oscillatorGains["root"].sine * 2 = WeightUnit

\* C7: for every hue passed to changeHue, negative or at or above 360
\* included, the weights written equal the weights of the hue wrapped into
\* [0,360), and the three weights are never all 0.
C7_HueWraps ==
  audioContext # "null" =>
    \A v \in Voices :
      /\ oscillatorGains[v] = HueComponents(hue % 360)
      /\ \E c \in Waves : oscillatorGains[v][c] > 0

\* C8: whenever the graph exists the root voice's output gain is 1 and the
\* third, fifth and seventh output gains are clamp(s,0,100)/100 for the last
\* saturation supplied.
C8_SaturationGains ==
  structureInitialized =>
    /\ outputGain["root"] = GainUnit
    /\ \A v \in Voices \ {"root"} :
         outputGain[v] * 100 =
           GainUnit * (IF saturation < 0 THEN 0
                       ELSE IF saturation > 100 THEN 100 ELSE saturation)

\* C8 witness: changeSaturation(150) has been applied to an existing graph.
C8_Witness ==
  /\ structureInitialized
  /\ lastOp = "changeSaturation"
  /\ saturation = 150
  /\ outputGain["third"] = GainUnit

\* The semitone offset the claim gives for a lightness, in half semitones.
ExpectedHalfSemitones(l) ==
  IF l <= 0 THEN 0 - 50 ELSE IF l >= 100 THEN 50 ELSE l - 50

\* C9: the semitone offset is -25 for lightness <= 0, +25 for lightness >=
\* 100 and l/2 - 25 in between, the same frequency 440*2^(offset/12) is
\* written to all four voices, and the offset never decreases when the
\* lightness does not.
C9_LightnessMonotone ==
  /\ [](audioContext # "null" =>
          \A v \in Voices :
            frequency[v] = [base |-> 440, halfSemitones |-> ExpectedHalfSemitones(lightness)])
  /\ [][ (audioContext # "null" /\ lightness <= lightness')
           => \A v \in Voices : frequency[v].halfSemitones <= frequency'[v].halfSemitones ]_vars

\* C9 witness: changeLightness(130) has written the upper bound to the graph.
C9_Witness ==
  /\ audioContext # "null"
  /\ lastOp = "changeLightness"
  /\ lightness = 130
  /\ frequency["seventh"] = [base |-> 440, halfSemitones |-> 50]

\* The gate openings of events at or after time from.
Openings(events, from) ==
  { i \in 1..Len(events) :
      events[i].type = "linearRampToValueAtTime" /\ events[i].time >= from }

\* C10: a step that schedules a progression of n chords of duration D at
\* start time s records s + n*(D + D/8 + D/16) + D/2 as the end time, with
\* n >= 4; its gate openings are never earlier than the end time recorded
\* before; for D = 2 s, n = 4, s = 0 the end time is 10.5 s.
C10_ProgressionEnd ==
  [][ nextChordProgressionEndTime' # nextChordProgressionEndTime =>
        LET s == IF nextChordProgressionEndTime > currentTime'
                 THEN nextChordProgressionEndTime ELSE currentTime'
            D == DurationTicks(chordDurationSeconds)
            opened == Openings(startStopGain'.gain, s)
            n == Cardinality(opened)
        IN  /\ n >= 4
            /\ 16 * nextChordProgressionEndTime' = (16 * s) + (n * 19 * D) + (8 * D)
            /\ \A i \in opened :
                 startStopGain'.gain[i].time >= nextChordProgressionEndTime
            /\ (D = 2 * TicksPerSecond /\ n = 4 /\ s = 0)
                 => 2 * nextChordProgressionEndTime' = 21 * TicksPerSecond ]_vars

\* C10 witness: a timer has scheduled the progression that follows a first
\* progression of four quarter-second chords started at time 0.
C10_Witness ==
  /\ lastOp = "timer"
  /\ DurationTicks(chordDurationSeconds) * 4 = TicksPerSecond
  /\ 16 * nextChordProgressionEndTime = 2 * ((4 * 19 * DurationTicks(chordDurationSeconds)) + (8 * DurationTicks(chordDurationSeconds)))
  /\ Openings(startStopGain.gain, currentTime) # {}

\* The gate automation, empty while the gate node does not exist.
GateEvents == IF startStopGain = NoNode THEN <<>> ELSE startStopGain.gain

\* A step that schedules a progression: a scheduler call that adds gate
\* openings.
SchedulesProgression ==
  /\ lastOp' \in {"play", "timer", "changeChordProgression"}
  /\ Cardinality(Openings(GateEvents', 0)) > Cardinality(Openings(GateEvents, 0))

\* C11: nextChordProgressionEndTime never decreases in any step, and it
\* strictly increases in every step that schedules a progression.
C11_EndTimeMonotone ==
  [][ /\ nextChordProgressionEndTime' >= nextChordProgressionEndTime
      /\ SchedulesProgression => nextChordProgressionEndTime' > nextChordProgressionEndTime ]_vars

\* Event i closes the last chord of a progression and event i + 1 opens the
\* first chord of the next one: decay, rest and the trailing half chord lie
\* between them (the decay is D/8, so D/2 is four decays).
ProgressionBoundary(events, i) ==
  /\ i + 1 <= Len(events)
  /\ events[i].type = "setTargetAtTime"
  /\ events[i + 1].type = "linearRampToValueAtTime"
  /\ events[i + 1].time =
       events[i].time + events[i].timeConstant + (events[i].timeConstant \div 2)
         + (4 * events[i].timeConstant)

\* C11 witness: a timer has scheduled a further progression behind the end of
\* the earlier one, before that end was reached.
C11_Witness ==
  /\ lastOp = "timer"
  /\ isChordProgressionEnabled
  /\ \E i \in 1..Len(GateEvents) :
       /\ ProgressionBoundary(GateEvents, i)
       /\ GateEvents[i + 1].time > currentTime
       /\ nextChordProgressionEndTime > GateEvents[i + 1].time

\* The chord events of a gate: openings and decays, in the order of the list.
ChordEvents(events) ==
  { i \in 1..Len(events) : events[i].type \in {"linearRampToValueAtTime", "setTargetAtTime"} }

\* C12: the scheduled chords never overlap: the uncancelled chord events are
\* strictly ordered in time, opening and decay alternate, and every opening
\* is no earlier than the previous chord's decay start plus that chord's
\* decay and rest; the detune writes of every oscillator are ordered in time, and
\* where two share a time the earlier one is the default detune of
\* construction or of a reset, not a chord.
C12_NoOverlap ==
  structureInitialized =>
    /\ \A i, j \in ChordEvents(GateEvents) :
         i < j => /\ GateEvents[i].time < GateEvents[j].time
                  /\ (j = i + 1) => GateEvents[i].type # GateEvents[j].type
                  /\ (GateEvents[i].type = "setTargetAtTime"
                        /\ GateEvents[j].type = "linearRampToValueAtTime")
                      => GateEvents[j].time >=
                           GateEvents[i].time + GateEvents[i].timeConstant
                             + (GateEvents[i].timeConstant \div 2)
    /\ \A v \in Voices : \A w \in Waves : \A i, j \in 1..Len(detune[v][w]) :
         i < j => /\ detune[v][w][i].time <= detune[v][w][j].time
                  /\ detune[v][w][i].time = detune[v][w][j].time
                       => /\ j = i + 1
                          /\ detune[v][w][i].value = DefaultSemitones[VoiceIndex[v]] * 100
                          /\ \A k \in ChordEvents(GateEvents) :
                               GateEvents[k].time = detune[v][w][i].time
                                 => /\ GateEvents[k].type = "linearRampToValueAtTime"
                                    /\ \A m \in ChordEvents(GateEvents) :
                                         GateEvents[m].time = GateEvents[k].time => m = k

\* C12 witness: two timers are pending and a progression of half-second
\* chords is scheduled behind a progression of quarter-second chords.
C12_Witness ==
  /\ timers = 2
  /\ \E i \in 1..Len(GateEvents) :
       /\ ProgressionBoundary(GateEvents, i)
       /\ i + 2 <= Len(GateEvents)
       /\ GateEvents[i + 2].timeConstant = 2 * GateEvents[i].timeConstant

\* The bound of [lo, hi] nearest to x, or x itself inside the domain.
Nearest(x, lo, hi) == IF x < lo THEN lo ELSE IF x > hi THEN hi ELSE x

\* C13: after any sequence of setter calls the stored volume, reverb
\* intensity and LFO intensity are in [0,1], the LFO frequency in [1,30] and
\* the chord duration in [0.25,10] seconds; every call stores its argument or,
\* for an argument out of range, the nearest bound; and every setter accepts
\* every argument in every state.
C13_StoredInDomain ==
  /\ [](/\ 0 <= overallVolumeGain /\ overallVolumeGain <= GainUnit
        /\ 0 <= reverbGain /\ reverbGain <= GainUnit
        /\ 0 <= lfoGain /\ lfoGain <= GainUnit
        /\ 1 <= lfoFrequency /\ lfoFrequency <= 30
        /\ 4 * DurationTicks(chordDurationSeconds) >= TicksPerSecond
        /\ DurationTicks(chordDurationSeconds) <= 10 * TicksPerSecond)
  /\ [](/\ \A v \in MixIntensityInputs : ENABLED (ChangeVolume(v) /\ UNCHANGED setterCalls)
        /\ \A i \in MixIntensityInputs :
             /\ ENABLED (ChangeReverbIntensity(i) /\ UNCHANGED setterCalls)
             /\ ENABLED (ChangeLfoIntensity(i) /\ UNCHANGED setterCalls)
        /\ \A f \in MixFrequencyInputs : ENABLED (ChangeLfoFrequency(f) /\ UNCHANGED setterCalls)
        /\ \A d \in MixDurationInputs : ENABLED ChangeChordDuration(d))
  /\ [][ /\ \A v \in MixIntensityInputs :
              ChangeVolume(v) => overallVolumeGain' = Nearest(v, 0, GainUnit)
         /\ \A i \in MixIntensityInputs :
              /\ ChangeReverbIntensity(i) => reverbGain' = Nearest(i, 0, GainUnit)
              /\ ChangeLfoIntensity(i) => lfoGain' = Nearest(i, 0, GainUnit)
         /\ \A f \in MixFrequencyInputs :
              ChangeLfoFrequency(f) => lfoFrequency' = Nearest(f, 1, 30)
         /\ \A d \in MixDurationInputs :
              ChangeChordDuration(d) =>
                chordDurationSeconds' = Nearest(d, DurationUnitsPerSecond \div 4, 10 * DurationUnitsPerSecond) ]_vars

\* C13 witness: on an existing graph changeLfoFrequency with an argument above
\* 30 has stored 30 after the other four setters stored a bound each.
C13_Witness ==
  /\ structureInitialized
  /\ lastOp = "changeLfoFrequency"
  /\ lfoFrequency = 30
  /\ overallVolumeGain = GainUnit
  /\ reverbGain = GainUnit
  /\ lfoGain = 0
  /\ 4 * DurationTicks(chordDurationSeconds) = TicksPerSecond

\* What no mix setter may touch: the colour, the chord fields, the graph's
\* nodes, the voices' gains and frequencies, the detunes, the gate, the audio
\* clock and the pending timers.
MixFrame == <<colourVars, chordVars, lifeVars, voiceVars, autoVars, currentTime, timers>>

\* C14: changeVolume changes only the stored volume and the final volume
\* gain, changeReverbIntensity only the stored reverb intensity and the reverb
\* wet/dry gains, changeLfoIntensity only the stored LFO intensity and the LFO
\* oscillator/constant gains, changeLfoFrequency only the stored LFO frequency
\* and the LFO oscillator frequency; everything else is left unchanged.
C14_NoCrossCoupling ==
  [][ /\ lastOp' = "changeVolume" =>
           UNCHANGED <<MixFrame, lfoFrequency, lfoGain, reverbGain, lfoChain, reverbChain>>
      /\ lastOp' = "changeReverbIntensity" =>
           UNCHANGED <<MixFrame, lfoFrequency, lfoGain, overallVolumeGain, lfoChain,
                       overallVolumeGainNode>>
      /\ lastOp' = "changeLfoIntensity" =>
           /\ UNCHANGED <<MixFrame, lfoFrequency, reverbGain, overallVolumeGain, reverbChain,
                          overallVolumeGainNode>>
           /\ structureInitialized => lfoChain'.frequency = lfoChain.frequency
      /\ lastOp' = "changeLfoFrequency" =>
           /\ UNCHANGED <<MixFrame, lfoGain, reverbGain, overallVolumeGain, reverbChain,
                          overallVolumeGainNode>>
           /\ structureInitialized =>
                /\ lfoChain'.oscillatorGain = lfoChain.oscillatorGain
                /\ lfoChain'.constantGain = lfoChain.constantGain ]_vars

\* C14 witness: changeReverbIntensity has rebalanced the reverb chain while a
\* progression was scheduled and a lookahead timer pending.
C14_Witness ==
  /\ lastOp = "changeReverbIntensity"
  /\ structureInitialized
  /\ reverbChain.wetGain > 0
  /\ lfoChain.oscillatorGain = WetDryBalance(25).wet
  /\ timers > 0
  /\ Pending(GateEvents, currentTime) # {}

\* C15: changeHue, changeSaturation and changeLightness leave every detune,
\* the gate, the scheduled automation, the end marker and the pending timers
\* as they are; the scheduler steps (timer, enable, disable, play() on an
\* existing graph) leave the waveform gains, the voice output gains and the
\* base frequencies as they are.
C15_DisjointWrites ==
  [][ /\ lastOp' \in {"changeHue", "changeSaturation", "changeLightness"} =>
           UNCHANGED <<autoVars, chordVars, timers>>
      /\ lastOp' \in {"timer", "changeChordProgression"} => UNCHANGED voiceVars
      /\ (lastOp' = "play" /\ structureInitialized) => UNCHANGED voiceVars ]_vars

\* C15 witness: changeLightness has retuned the voices between the scheduling
\* of a progression and the firing of its lookahead timer, with the chords
\* still scheduled.
C15_Witness ==
  /\ lastOp = "changeLightness"
  /\ structureInitialized
  /\ isChordProgressionEnabled
  /\ frequency["root"] = Frequency(0 - 50)
  /\ timers > 0
  /\ Cardinality(Openings(GateEvents, currentTime + 1)) >= 3
  /\ \A v \in Voices : \A w \in Waves : Pending(detune[v][w], currentTime) # {}

\* C16: on the LFO path and on the reverb path alike, intensity 0 gives a wet
\* gain of exactly 0 and a dry gain other than 0, intensity 1 gives a dry gain
\* of exactly 0 and a wet gain other than 0, and both paths use one crossfade
\* function f with wet = f(i) and dry = f(1 - i): equal intensities give equal
\* gains on the two paths, and intensities i and 1 - i give the wet gain of
\* one path as the dry gain of the other.
C16_WetDryEndpoints ==
  structureInitialized =>
    /\ reverbGain = 0 => (reverbChain.wetGain = 0 /\ reverbChain.dryGain # 0)
    /\ reverbGain = GainUnit => (reverbChain.dryGain = 0 /\ reverbChain.wetGain # 0)
    /\ lfoGain = 0 => (lfoChain.oscillatorGain = 0 /\ lfoChain.constantGain # 0)
    /\ lfoGain = GainUnit => (lfoChain.constantGain = 0 /\ lfoChain.oscillatorGain # 0)
    /\ reverbGain = lfoGain =>
         (reverbChain.wetGain = lfoChain.oscillatorGain
            /\ reverbChain.dryGain = lfoChain.constantGain)
    /\ reverbGain + lfoGain = GainUnit =>
         (reverbChain.wetGain = lfoChain.constantGain
            /\ reverbChain.dryGain = lfoChain.oscillatorGain)

\* C16 witness: changeLfoIntensity(0) has been applied to a graph whose
\* reverb intensity was set to 1.
C16_Witness ==
  /\ structureInitialized
  /\ lastOp = "changeLfoIntensity"
  /\ lfoGain = 0
  /\ reverbGain = GainUnit
  /\ lfoChain.oscillatorGain = 0
  /\ reverbChain.dryGain = 0

\* Every graph parameter a setter governs holds the mapping of the stored
\* value of that setter.
AppliedIsStored ==
  /\ overallVolumeGainNode.gain = overallVolumeGain
  /\ lfoChain.frequency = lfoFrequency
  /\ lfoChain.oscillatorGain = lfoGain * HALF_PI_E4
  /\ lfoChain.constantGain = (GainUnit - lfoGain) * HALF_PI_E4
  /\ reverbChain.wetGain = reverbGain * HALF_PI_E4
  /\ reverbChain.dryGain = (GainUnit - reverbGain) * HALF_PI_E4
  /\ \A v \in Voices :
       /\ oscillatorGains[v] = HueComponents(hue)
       /\ frequency[v] = Frequency(SemitoneDistance(lightness))
       /\ v # "root" => outputGain[v] = ChordGains(saturation)

\* C17: whenever the graph exists every applied graph parameter is the
\* mapping of the stored value of its setter; every setter call stores the
\* (clamped, wrapped) value it was given, so the value applied is that of the
\* last call; and the first play() applies the values stored before it
\* without changing them.
C17_LastWriteWins ==
  /\ [](structureInitialized => AppliedIsStored)
  /\ [][ /\ \A h \in SetterHueInputs : ChangeHue(h) => hue' = h % 360
         /\ \A s \in SetterSaturationInputs : ChangeSaturation(s) => saturation' = s
         /\ \A l \in SetterLightnessInputs : ChangeLightness(l) => lightness' = l
         /\ \A v \in SetterVolumeInputs :
              ChangeVolume(v) => overallVolumeGain' = Nearest(v, 0, GainUnit)
         /\ \A i \in SetterReverbInputs :
              ChangeReverbIntensity(i) => reverbGain' = Nearest(i, 0, GainUnit)
         /\ \A i \in SetterLfoIntensityInputs :
              ChangeLfoIntensity(i) => lfoGain' = Nearest(i, 0, GainUnit)
         /\ \A f \in SetterLfoFrequencyInputs :
              ChangeLfoFrequency(f) => lfoFrequency' = Nearest(f, 1, 30)
         /\ lastOp' = "play" => UNCHANGED <<colourVars, mixVars>> ]_vars

\* C17 witness: the first play() has built the graph with a volume, a reverb
\* intensity, a hue and a lightness that were set before it, none of them the
\* initial value.
C17_Witness ==
  /\ lastOp = "play"
  /\ structureInitialized
  /\ overallVolumeGainNode.gain = GainUnit
  /\ reverbChain.wetGain = 50 * HALF_PI_E4
  /\ lfoChain.frequency = 1
  /\ oscillatorGains["fifth"] = [square |-> 0, sawtooth |-> WeightUnit \div 2,
                                  sine |-> WeightUnit \div 2]
  /\ frequency["third"] = [base |-> 440, halfSemitones |-> 50]
  /\ outputGain["seventh"] = 0

\* C18: pause() changes nothing but the rendering status: the graph nodes,
\* every stored parameter, every applied parameter, every scheduled detune and
\* gate event, the end marker, the chord-mode flag and the pending timers are
\* left unchanged; without a graph it changes nothing at all.
C18_PauseFrame ==
  [][ lastOp' = "pause" =>
        /\ UNCHANGED <<colourVars, mixVars, chordVars, structureInitialized, nodes, started,
                       voiceVars, autoVars, fxVars, currentTime, timers>>
        /\ audioContext' = IF audioContext = "null" THEN "null" ELSE "suspended" ]_vars

\* C18 witness: pause() has suspended a running context after a setter call,
\* while chords were scheduled after the current audio time and a lookahead
\* timer was pending.
C18_Witness ==
  /\ lastOp = "pause"
  /\ audioContext = "suspended"
  /\ isChordProgressionEnabled
  /\ currentTime > 0
  /\ timers > 0
  /\ setterCalls > 0
  /\ Openings(GateEvents, currentTime + 1) # {}
  /\ nextChordProgressionEndTime > currentTime

\* C19: changeChordDuration changes only the stored chord duration, which
\* stays in [0.25,10] seconds: every scheduled event, the end marker, the
\* timers and everything else are left unchanged; a later scheduling step
\* keeps the events scheduled before it and gives every chord it adds the
\* duration stored at that step (decay start one duration after the opening,
\* decay an eighth of it).
C19_DurationNotRetroactive ==
  [][ /\ lastOp' = "changeChordDuration" =>
           /\ UNCHANGED <<colourVars, mixVars, isChordProgressionEnabled,
                          nextChordProgressionEndTime, lifeVars, voiceVars, autoVars, fxVars,
                          currentTime, timers>>
           /\ 4 * DurationTicks(chordDurationSeconds') >= TicksPerSecond
           /\ DurationTicks(chordDurationSeconds') <= 10 * TicksPerSecond
      /\ SchedulesProgression =>
           /\ chordDurationSeconds' = chordDurationSeconds
           /\ Len(GateEvents') > Len(GateEvents)
           /\ SubSeq(GateEvents', 1, Len(GateEvents)) = GateEvents
           /\ \A i \in (Len(GateEvents) + 1)..Len(GateEvents') :
                GateEvents'[i].type = "setTargetAtTime" =>
                  /\ 8 * GateEvents'[i].timeConstant = DurationTicks(chordDurationSeconds)
                  /\ GateEvents'[i - 1].type = "linearRampToValueAtTime"
                  /\ GateEvents'[i].time = GateEvents'[i - 1].time + DurationTicks(chordDurationSeconds) ]_vars

\* C19 witness: changeChordDuration has stored half a second while chords of
\* another duration were scheduled after the current audio time.
C19_Witness ==
  /\ lastOp = "changeChordDuration"
  /\ 2 * DurationTicks(chordDurationSeconds) = TicksPerSecond
  /\ nextChordProgressionEndTime > currentTime
  /\ \E i \in Pending(GateEvents, currentTime) :
       /\ GateEvents[i].type = "setTargetAtTime"
       /\ 8 * GateEvents[i].timeConstant # DurationTicks(chordDurationSeconds)

\* The gate automation holds the chords of a progression that ends at endTime:
\* its last event is the decay of the last chord, and decay, rest and the
\* trailing half chord after it lead to endTime.
ProgressionScheduledUntil(events, endTime) ==
  /\ events # <<>>
  /\ LastEvent(events).type = "setTargetAtTime"
  /\ endTime = LastEvent(events).time + LastEvent(events).timeConstant
                 + (LastEvent(events).timeConstant \div 2)
                 + (4 * LastEvent(events).timeConstant)

\* C20: every play() made while chord mode is enabled returns with a
\* lookahead timer armed and with a progression scheduled whose end time is
\* later than the current audio time; the first play() with chord mode
\* enabled schedules a progression that starts at the current audio time.
C20_PlayKeepsScheduler ==
  [][ (lastOp' = "play" /\ isChordProgressionEnabled) =>
        /\ timers' = timers + 1
        /\ nextChordProgressionEndTime' > currentTime'
        /\ ProgressionScheduledUntil(GateEvents', nextChordProgressionEndTime')
        /\ audioContext = "null" =>
             \E i \in Openings(GateEvents', currentTime') :
               GateEvents'[i].time = currentTime' ]_vars

\* Every parameter of the graph, as a value or as automation.
GraphParameters == <<voiceVars, autoVars, fxVars>>

\* C21: a failed load of any of the four assets, or a wavetable without
\* real/imag arrays, changes no parameter of the graph, no stored field, no
\* periodic wave and no buffer, and requests nothing again: every asset is
\* requested exactly once, when the graph is built, and a failed asset stays
\* failed.
C21_AssetFailureHarmless ==
  /\ [](\A a \in Assets : fetches[a] = IF audioContext = "null" THEN 0 ELSE 1)
  /\ [][ \A a \in Assets :
           /\ (settled[a] = "pending" /\ settled'[a] \in {"failed", "malformed"}) =>
                /\ UNCHANGED <<GraphParameters, colourVars, mixVars, chordVars, fetches,
                               periodicWave, convolverBuffer, timers, structureInitialized,
                               audioContext, nodes, started>>
                /\ written' = {}
           /\ settled[a] \in {"failed", "malformed"} => settled'[a] = settled[a] ]_vars

\* C21 witness: the impulse response and the square wavetable have failed and
\* the sine wavetable came without arrays, on a graph with a progression
\* scheduled.
C21_Witness ==
  /\ lastOp = "assetSettles"
  /\ settled["impulse"] = "failed"
  /\ settled["square"] = "failed"
  /\ settled["sine"] = "malformed"
  /\ isChordProgressionEnabled
  /\ Openings(GateEvents, currentTime) # {}
  /\ reverbChain.wetGain > 0

\* The manager holds the colour of colorSlice's initial state and the default
\* mix fields.
DefaultFields ==
  /\ hue = 300 /\ saturation = 50 /\ lightness = 40
  /\ 100 * overallVolumeGain = 10 * GainUnit
  /\ 100 * lfoGain = 25 * GainUnit
  /\ lfoFrequency = 15
  /\ reverbGain = 0

\* C22: the first play() of a manager with hue 300, saturation 50, lightness
\* 40 and the default mix fields leaves all four voices at 440 * 2^(-5/12) Hz
\* (semitone offset -5), the third, fifth and seventh output gains at 0.5,
\* the root output gain at 1, the waveform weights at square 0.5, sawtooth 0,
\* sine 0.5, the volume gain at 0.1 and the reverb wet gain at 0.
C22_InitialState ==
  [][ (audioContext = "null" /\ lastOp' = "play" /\ DefaultFields) =>
        /\ \A v \in Voices :
             /\ frequency'[v] = [base |-> 440, halfSemitones |-> (0 - 5) * SemitoneUnit]
             /\ 2 * oscillatorGains'[v].square = WeightUnit
             /\ oscillatorGains'[v].sawtooth = 0
             /\ 2 * oscillatorGains'[v].sine = WeightUnit
             /\ 2 * outputGain'[v] = IF v = "root" THEN 2 * GainUnit ELSE GainUnit
        /\ 10 * overallVolumeGainNode'.gain = GainUnit
        /\ overallVolumeGainNode'.gain > 0
        /\ reverbChain'.wetGain = 0 ]_vars

\* C22 witness: the first play() has just built the graph from the default
\* fields, after pause() and changeChordProgression were called without a
\* graph.
C22_Witness ==
  /\ lastOp = "play"
  /\ DefaultFields
  /\ setterCalls = 0
  /\ currentTime = 0
  /\ isChordProgressionEnabled
  /\ \A n \in GraphNodes : nodes[n] = 1
  /\ written = Parameters
  /\ frequency["root"].halfSemitones = (0 - 5) * SemitoneUnit

\* C23: after any sequence of adjustHue actions, starting from hue 300, the
\* hue of the colour store is at least 0 and strictly less than 360.
C23_StoreHueHalfOpen ==
  colorState.hue >= 0 /\ colorState.hue < 360

\* The chords a step has added to the gate automation: the k-th of them opens
\* at event Len(GateEvents) + 2k - 1 of the new automation.
ChordsAdded == (Len(GateEvents') - Len(GateEvents)) \div 2
AddedOpening(k) == GateEvents'[Len(GateEvents) + (2 * k) - 1]

\* The values the detunes of the three oscillators of a voice are set to at
\* time t, as a set: of the sets written to one oscillator for one time the
\* last one written takes effect, and an oscillator with no set at t
\* contributes -1, which is no detune the program writes, so that the set
\* is one detune exactly when all three oscillators are set to it.
DetuneSetAt(oscillators, t) ==
  LET at(w) == { n \in 1..Len(oscillators[w]) :
                   oscillators[w][n].time = t /\ oscillators[w][n].type = "setValueAtTime" }
      last(w) == CHOOSE m \in at(w) : \A k \in at(w) : k <= m
  IN  { IF at(w) = {} THEN 0 - 1 ELSE oscillators[w][last(w)].value : w \in Waves }

\* The step has scheduled the chords of list: the k-th chord added writes,
\* at its start time, (chord root + interval of the voice) * 100 cents to
\* each voice, and for a triad the seventh voice gets the root voice's value.
WritesChords(list) ==
  /\ ChordsAdded = Len(list)
  /\ \A k \in 1..Len(list) :
       LET root == ChordTones[list[k]][1]
           intervals == ChordTones[list[k]][2]
           t == AddedOpening(k).time
       IN  /\ AddedOpening(k).type = "linearRampToValueAtTime"
           /\ DetuneSetAt(detune'["root"], t) = {(root + intervals[1]) * 100}
           /\ DetuneSetAt(detune'["third"], t) = {(root + intervals[2]) * 100}
           /\ DetuneSetAt(detune'["fifth"], t) = {(root + intervals[3]) * 100}
           /\ DetuneSetAt(detune'["seventh"], t) = {(root + intervals[4]) * 100}
           /\ intervals[4] = 0 =>
                DetuneSetAt(detune'["seventh"], t) = DetuneSetAt(detune'["root"], t)

\* C24: every scheduling step writes, for every chord of the progression it
\* has drawn from the table, detune (chord root + interval of the voice) * 100
\* cents to the root, third, fifth and seventh voice at the chord's start
\* time; for a triad the seventh voice gets the same detune as the root voice.
C24_ChordDetunes ==
  [][ SchedulesProgression =>
        \E name \in DOMAIN ChordProgressions :
          \/ WritesChords(ChordProgressions[name])
          \/ WritesChords(ChordProgressions[name] \o ChordProgressions[name]) ]_vars

\* C24 witness: the seven chords of Royal-Extended are scheduled, sevenths
\* and triads: the seventh voice is set to 1600 cents for IV Maj7 at the
\* start and to 0 cents, as the root voice, for the closing I Maj.
C24_Witness ==
  /\ lastOp = "changeChordProgression"
  /\ Cardinality(Openings(GateEvents, 0)) = 7
  /\ DetuneSetAt(detune["seventh"], GateEvents[Len(GateEvents) - 1].time) = {0}
  /\ DetuneSetAt(detune["root"], GateEvents[Len(GateEvents) - 1].time) = {0}
  /\ \E i \in Openings(GateEvents, 0) :
       /\ DetuneSetAt(detune["seventh"], GateEvents[i].time) = {1600}
       /\ DetuneSetAt(detune["root"], GateEvents[i].time) = {500}

\* The chords a progression of the table is played as: twice over when it
\* has three chords or fewer, once otherwise.
PlayedAs(name) ==
  IF Len(ChordProgressions[name]) <= 3
  THEN ChordProgressions[name] \o ChordProgressions[name]
  ELSE ChordProgressions[name]

\* C25: every scheduling step schedules some progression of the table, twice
\* in order when it has three chords or fewer and once otherwise, so at
\* least four chords; and the ChordProgressions and ChordTones tables always
\* hold what they held at load time.
C25_ShortProgressionsDoubled ==
  /\ [](tables = [ChordProgressions |-> ChordProgressions, ChordTones |-> ChordTones])
  /\ [][ SchedulesProgression =>
           /\ ChordsAdded >= 4
           /\ \E name \in DOMAIN ChordProgressions :
                /\ ChordsAdded = Len(PlayedAs(name))
                /\ WritesChords(PlayedAs(name)) ]_vars

\* C25 witness: the three chords of Three-Chord-1 have been scheduled twice
\* over (six chords, V I IV V I IV: root detunes 700, 0, 500 cents and
\* again), the table still holding the three chords.
C25_Witness ==
  /\ Cardinality(Openings(GateEvents, 0)) = 6
  /\ \A k \in 1..6 :
       DetuneSetAt(detune["root"], GateEvents[(2 * k) - 1].time)
         = {<<700, 0, 500>>[((k - 1) % 3) + 1]}
  /\ tables.ChordProgressions["Three-Chord-1"] = <<"V Maj", "I Maj", "IV Maj">>

\* A scheduler check runs in the step: play() and the timer callback call it,
\* changeChordProgression calls it when the value changes.
CheckRuns ==
  \/ lastOp' \in {"play", "timer"}
  \/ lastOp' = "changeChordProgression"
       /\ isChordProgressionEnabled' # isChordProgressionEnabled

\* The opening at index j continues the progression of the chord before it:
\* it comes one decay and one rest after that chord's closing.
ChordFollows(events, j) ==
  /\ j > 1
  /\ events[j - 1].type = "setTargetAtTime"
  /\ events[j].time = events[j - 1].time + events[j - 1].timeConstant
                        + (events[j - 1].timeConstant \div 2)

\* C26: a scheduler check with chord mode enabled and the end marker more
\* than the lookahead after the audio time writes no automation, keeps the
\* end marker and arms one timer; a progression is only scheduled by a check
\* with the end marker at most the lookahead after the audio time; so no
\* progression starts beyond the lookahead window: every chord beyond it
\* continues the one progression that reaches there.
C26_LookaheadGating ==
  /\ [][ (CheckRuns /\ Ready' /\ isChordProgressionEnabled'
            /\ nextChordProgressionEndTime - LOOKAHEAD_TICKS > currentTime)
         => /\ UNCHANGED <<startStopGain, detune, nextChordProgressionEndTime>>
            /\ written' = {}
            /\ timers' = (IF lastOp' = "timer" THEN timers - 1 ELSE timers) + 1 ]_vars
  /\ [][ SchedulesProgression =>
           /\ CheckRuns
           /\ isChordProgressionEnabled'
           /\ nextChordProgressionEndTime - LOOKAHEAD_TICKS <= currentTime ]_vars
  /\ [](\A j \in Openings(GateEvents, currentTime + LOOKAHEAD_TICKS + 1) :
          ChordFollows(GateEvents, j))

\* C26 witness: a timer callback has found the end marker more than the
\* lookahead ahead and has armed the next timer, with chords of the
\* progression still to come beyond the lookahead window.
C26_Witness ==
  /\ lastOp = "timer"
  /\ Ready
  /\ isChordProgressionEnabled
  /\ nextChordProgressionEndTime - LOOKAHEAD_TICKS > currentTime
  /\ timers = 1
  /\ currentTime > 0
  /\ Openings(GateEvents, currentTime + LOOKAHEAD_TICKS + 1) # {}

\* The events of a list after the step that were not in it before.
NewEvents(before, after) ==
  { after[i] : i \in 1..Len(after) } \ { before[i] : i \in 1..Len(before) }

\* The automation events the step has added to the gate and to the detunes.
EventsWritten ==
  NewEvents(GateEvents, GateEvents')
    \cup UNION { NewEvents(IF detune = NoNode THEN <<>> ELSE detune[v][w], detune'[v][w]) :
                 <<v, w>> \in Voices \X Waves }

\* C27: a progression starts at the later of the end marker and the audio
\* time of the step that schedules it, at most the lookahead after that
\* time; and no event a scheduler check writes is earlier than the audio
\* time of its step.
C27_StartsAtMaxOfEndAndNow ==
  /\ [][ SchedulesProgression =>
           /\ AddedOpening(1).time = Max(nextChordProgressionEndTime, currentTime')
           /\ AddedOpening(1).time <= currentTime' + LOOKAHEAD_TICKS
           /\ \A k \in 1..ChordsAdded : AddedOpening(k).time >= AddedOpening(1).time ]_vars
  /\ [][ (CheckRuns /\ Ready') =>
           \A e \in EventsWritten : e.time >= currentTime ]_vars

\* C27 witness: chord mode is enabled after the audio clock has moved past
\* the end marker, and the progression scheduled runs from the audio time of
\* that step: its first chord opens there and the marker is one progression
\* of four or six chords later.
C27_Witness ==
  /\ lastOp = "changeChordProgression"
  /\ isChordProgressionEnabled
  /\ currentTime > 0
  /\ Cardinality(Openings(GateEvents, 0)) >= 4
  /\ \A i \in Openings(GateEvents, 0) : GateEvents[i].time >= currentTime
  /\ \E i \in Openings(GateEvents, 0) : GateEvents[i].time = currentTime
  /\ nextChordProgressionEndTime
       = currentTime
           + Cardinality(Openings(GateEvents, 0))
               * (DurationTicks(chordDurationSeconds) + (DurationTicks(chordDurationSeconds) \div 8)
                    + (DurationTicks(chordDurationSeconds) \div 16))
           + (DurationTicks(chordDurationSeconds) \div 2)

\* The values of a freshly constructed gain and detune parameter.
GainDefault == 1
DetuneDefault == 0

\* The value a parameter holds at audio time now when the last event at or
\* before now is a set-value event (or there is none: its default value).
ValueNow(events, default, now) ==
  LET past == { i \in 1..Len(events) : events[i].time <= now }
  IN  IF past = {} THEN default
      ELSE events[CHOOSE i \in past : \A k \in past : k <= i].value

\* The parameter has settled: its last event is a set-value event that is not
\* later than now, or it has no event at all.
Settled(events, now) ==
  events # <<>> =>
    /\ events[Len(events)].type = "setValueAtTime"
    /\ events[Len(events)].time <= now

\* The detunes of the default chord, in cents: a major triad, the seventh
\* voice in unison with the root.
InitialCents == ( "root" :> 0 ) @@ ( "third" :> 400 ) @@ ( "fifth" :> 700 ) @@ ( "seventh" :> 0 )

\* The automation of a parameter after the first play() without what the
\* chords of the progression scheduled by that play() have written: of the
\* gate an opening and a decay for each chord, of a detune one set for each
\* chord, all later in the list than what was written before them.
ChordsOfFirstPlay == IF isChordProgressionEnabled' THEN Len(GateEvents') \div 2 ELSE 0
BeforeChords(events, writes) == SubSeq(events, 1, Len(events) - writes)

\* C28: in the graph the first play() has constructed, the gate and the
\* detunes of all oscillators hold 1 and 0/400/700/0 cents before any chord:
\* what the automation holds besides the chords of that play() are sets to
\* those values at clock readings of the call, in effect on return; and
\* whenever the graph exists and chord mode is off, also after chord mode
\* was on and progressions were scheduled, the gate and the detunes are
\* settled on those values.
C28_DisableRestoresInitial ==
  /\ [][ (lastOp' = "play" /\ NeedsContext) =>
           LET gate == BeforeChords(GateEvents', 2 * ChordsOfFirstPlay)
           IN  /\ \A i \in 1..Len(gate) :
                    /\ gate[i] = SetValueEvent(1, gate[i].time)
                    /\ gate[i].time >= currentTime /\ gate[i].time <= currentTime'
               /\ ValueNow(gate, GainDefault, currentTime') = 1
               /\ \A v \in Voices : \A w \in Waves :
                    LET built == BeforeChords(detune'[v][w], ChordsOfFirstPlay)
                    IN  /\ \A i \in 1..Len(built) :
                             /\ built[i] = SetValueEvent(InitialCents[v], built[i].time)
                             /\ built[i].time >= currentTime
                             /\ built[i].time <= currentTime'
                        /\ ValueNow(built, DetuneDefault, currentTime') = InitialCents[v]
                        /\ \A i \in (Len(built) + 1)..Len(detune'[v][w]) :
                             \E k \in 1..ChordsOfFirstPlay :
                               detune'[v][w][i].time = AddedOpening(k).time ]_vars
  /\ []((Ready /\ ~isChordProgressionEnabled) =>
          /\ Settled(GateEvents, currentTime)
          /\ ValueNow(GateEvents, GainDefault, currentTime) = 1
          /\ \A v \in Voices : \A w \in Waves :
               /\ Settled(detune[v][w], currentTime)
               /\ ValueNow(detune[v][w], DetuneDefault, currentTime) = InitialCents[v])

\* C28 witness: chord mode has been switched off after a progression was
\* scheduled and partly played: the end marker still lies ahead, and the gate
\* and the third voice are set to 1 and 400 cents at the clock readings of the
\* switch, the gate one tick before the seventh voice.
C28_Witness ==
  /\ lastOp = "changeChordProgression"
  /\ Ready
  /\ ~isChordProgressionEnabled
  /\ currentTime > 0
  /\ nextChordProgressionEndTime > currentTime
  /\ currentTime > LOOKAHEAD_TICKS
  /\ GateEvents[Len(GateEvents)] = SetValueEvent(1, currentTime - 1)
  /\ \A w \in Waves :
       /\ LastEvent(detune["third"][w]).value = 400
       /\ LastEvent(detune["third"][w]).time \in { currentTime - 1, currentTime }
       /\ LastEvent(detune["seventh"][w]) = SetValueEvent(0, currentTime)

\* The impulse response has been decoded and handed to the convolver in the
\* step.
ImpulseLoads ==
  /\ lastOp' = "assetSettles"
  /\ ~convolverBuffer
  /\ convolverBuffer'

\* A changeReverbIntensity call on the constructed graph.
ReverbIntensityChanges ==
  /\ lastOp' = "changeReverbIntensity"
  /\ ~NoAudioYet(reverbChain)

\* The reverb gains are the wet/dry balance of the stored intensity.
ReverbBalanced ==
  reverbChain # NoNode =>
    reverbChain = [wetGain |-> WetDryBalance(reverbGain).wet,
                   dryGain |-> WetDryBalance(reverbGain).dry]

\* C29 as stated: the step that completes the load of the impulse response
\* writes the wet and the dry gain of the reverb path, as every
\* changeReverbIntensity call on the graph does.
C29_ReappliedOnLoad ==
  [][ (ImpulseLoads \/ ReverbIntensityChanges) => "reverbGains" \in written' ]_vars

\* C29 amended: the step that completes the load of the impulse response
\* only hands the buffer to the convolver and writes no gain; the wet and dry
\* gains are written at construction and by every changeReverbIntensity call
\* on the graph, so that they are the balance of the stored intensity at all
\* times, when the load completes included.
C29_BalanceHeldWithoutReapplying ==
  /\ [][ ImpulseLoads => (written' = {} /\ UNCHANGED <<reverbChain, reverbGain>>) ]_vars
  /\ [][ ReverbIntensityChanges => ("reverbGains" \in written' /\ ReverbBalanced') ]_vars
  /\ [][ (lastOp' = "play" /\ NeedsContext) => "reverbGains" \in written' ]_vars
  /\ []ReverbBalanced

\* C29 witness: the impulse response has just been loaded into the convolver
\* of a graph whose reverb intensity was changed to 0.5 while the fetch was
\* pending; the gains are the balance of 0.5.
C29_Witness ==
  /\ lastOp = "assetSettles"
  /\ convolverBuffer
  /\ settled["impulse"] = "loaded"
  /\ reverbGain = 50
  /\ reverbChain = [wetGain |-> WetDryBalance(50).wet, dryGain |-> WetDryBalance(50).dry]
  /\ written = {}

\* Everything but the loaded assets: stored fields, graph parameters,
\* automation, schedule state and timers.
CallerState ==
  <<colourVars, mixVars, chordVars, structureInitialized, audioContext, nodes, started,
    voiceVars, autoVars, fxVars, colorState, tables, envVars>>

\* The automation and the end marker are left as they are: the scheduler
\* check of the step, if any, has scheduled or reset nothing.
ScheduleKept == UNCHANGED <<autoVars, nextChordProgressionEndTime>>

\* What the caller operations can do in a state, as far as a completion
\* could matter: whether each can run, and whether it schedules or writes.
CallerOptions ==
  [ play |-> ENABLED Play(AssetProgressionPool, 0),
    playKeeps |-> ENABLED (Play(AssetProgressionPool, 0) /\ ScheduleKept),
    pause |-> ENABLED Pause,
    reverb |-> ENABLED (\E i \in AssetReverbInputs : SetterCalled /\ ChangeReverbIntensity(i)),
    reverbWrites |-> ENABLED (\E i \in AssetReverbInputs :
                                ChangeReverbIntensity(i) /\ SetterCalled /\ ReverbBalanced'
                                  /\ reverbChain' # NoNode),
    disable |-> ENABLED ChangeChordProgression(FALSE, AssetProgressionPool, 0),
    disableKeeps |-> ENABLED (ChangeChordProgression(FALSE, AssetProgressionPool, 0)
                                /\ ScheduleKept),
    timer |-> ENABLED TimerFires(AssetProgressionPool, 0),
    timerKeeps |-> ENABLED (TimerFires(AssetProgressionPool, 0) /\ ScheduleKept) ]

\* C30: a completion changes nothing but the state of its own asset (the
\* periodic wave of one oscillator type, or the convolver buffer), so gains,
\* frequencies, detunes, gate automation and schedule state are what they are
\* without it; play, pause, the reverb setter, the disabling of chord mode
\* and the timer callback can run after the completion exactly when they
\* could before it, scheduling or writing in the same cases; and no caller
\* operation completes, undoes or re-requests a load.
C30_CompletionsCommute ==
  /\ [][ lastOp' = "assetSettles" =>
           /\ UNCHANGED <<CallerState, fetches>>
           /\ \E a \in Assets :
                /\ \A b \in Assets \ {a} : settled'[b] = settled[b]
                /\ \A w \in Waves \ {a} : periodicWave'[w] = periodicWave[w]
                /\ a # "impulse" => convolverBuffer' = convolverBuffer
           /\ CallerOptions' = CallerOptions ]_vars
  /\ [][ lastOp' # "assetSettles" =>
           /\ UNCHANGED <<periodicWave, convolverBuffer>>
           /\ \/ UNCHANGED <<settled, fetches>>
              \/ lastOp' = "play" /\ NeedsContext ]_vars

\* C30 witness: chord mode has been enabled and a progression scheduled
\* while two of the four loads had completed and two were pending.
C30_Witness ==
  /\ lastOp = "changeChordProgression"
  /\ written = {"gate", "detune"}
  /\ Cardinality(Openings(GateEvents, 0)) = 6
  /\ settled["sine"] = "loaded"
  /\ settled["impulse"] = "failed"
  /\ settled["square"] = "pending"
  /\ settled["sawtooth"] = "pending"
  /\ periodicWave["sine"]
  /\ ~convolverBuffer

\* A gain of 1.0 in the unit of the wet and dry gains (1/GainUnit of an
\* intensity times 1/10000 of a gain).
TotalGainOne == GainUnit * 10000

\* C31: on a constructed graph the wet and the dry gain of the LFO pair, and
\* of the reverb pair, have a total of 1.0.
C31_WetDryTotalOne ==
  structureInitialized =>
    /\ lfoChain.oscillatorGain + lfoChain.constantGain = TotalGainOne
    /\ reverbChain.wetGain + reverbChain.dryGain = TotalGainOne

\* C32: each of the twelve voice oscillators and the LFO oscillator is
\* started once, by the play() that builds the graph, and by no other step,
\* and is never stopped; a scheduler check on the built graph writes only the
\* gate and the detunes and leaves the mix gains, the frequencies and the
\* nodes as they are.
C32_GeneratorsRunContinuously ==
  /\ [](/\ Cardinality(Oscillators) = 13
        /\ \A n \in Oscillators :
             /\ started[n] = IF audioContext = "null" THEN 0 ELSE 1
             /\ stopped[n] = 0)
  /\ [][ started' # started => (lastOp' = "play" /\ NeedsContext) ]_vars
  /\ [][ (CheckRuns /\ ~NeedsContext) =>
           /\ written' \subseteq {"gate", "detune"}
           /\ UNCHANGED <<nodes, started, stopped, voiceVars, fxVars>> ]_vars

\* C32 witness: after a pause and a second play(), with chord mode switched
\* on and off again and a progression partly played, every oscillator has
\* been started once and none stopped.
C32_Witness ==
  /\ lastOp = "play"
  /\ currentTime > 0
  /\ audioContext = "running"
  /\ ~isChordProgressionEnabled
  /\ nextChordProgressionEndTime > 0
  /\ \A n \in Oscillators : started[n] = 1 /\ stopped[n] = 0

\* C33: at most one lookahead timer is pending: the number of armed timers is
\* 0 or 1.
C33_OneTimerPending == timers \in {0, 1}

\* C34: whenever the graph exists and chord mode is enabled, at least one
\* lookahead timer is armed.
C34_SchedulerNeverStalls ==
  (Ready /\ isChordProgressionEnabled) => timers >= 1

\* C34 witness: with chord mode enabled, a timer callback has run while the
\* context was suspended, after the audio clock had advanced, and has found
\* the end marker far ahead: one timer is armed again.
C34_Witness ==
  /\ lastOp = "timer"
  /\ Ready
  /\ isChordProgressionEnabled
  /\ audioContext = "suspended"
  /\ currentTime > 0
  /\ FarAhead(nextChordProgressionEndTime, currentTime)
  /\ timers = 1

\* The graph exists, chord mode is enabled and the context is running.
KeepsPlaying == Ready /\ isChordProgressionEnabled /\ audioContext = "running"

\* C35: if from some point on the graph exists, chord mode stays enabled and
\* the context keeps running, and timer callbacks keep running, then the end
\* marker eventually exceeds every audio time the clock reaches: the last
\* one, and with it all before.
C35_ProgressionsKeepComing ==
  (<>[]KeepsPlaying /\ []<>(lastOp = "timer"))
    => <>(nextChordProgressionEndTime > LiveTime)

\* C35 witness: a timer callback at the last audio time, after the first
\* progression had ended, has scheduled a second progression of four
\* two-second chords: the end marker is beyond the last audio time.
C35_Witness ==
  /\ KeepsPlaying
  /\ lastOp = "timer"
  /\ written = {"gate", "detune"}
  /\ currentTime = LiveTime
  /\ nextChordProgressionEndTime = LiveTime + 672
  /\ Cardinality(Openings(GateEvents, LiveTime)) = 4

\* C36: a changeChordProgression(true) that turns chord mode on while the
\* graph exists schedules a progression whose first chord starts at most the
\* lookahead after the current audio time.
C36_EnableSchedulesAtOnce ==
  [][ (lastOp' = "changeChordProgression" /\ Ready
         /\ ~isChordProgressionEnabled /\ isChordProgressionEnabled')
      => /\ SchedulesProgression
         /\ AddedOpening(1).time <= currentTime + LOOKAHEAD_TICKS ]_vars

SectorStarts == {0, 120, 240}

SectorsOf(h) == {lo \in SectorStarts : lo <= h /\ h <= lo + 120}

SectorWeights(lo, h) ==
  LET rising == ((h - lo) * WeightUnit) \div 120
      falling == ((lo + 120 - h) * WeightUnit) \div 120
  IN  CASE lo = 0 -> Weights(falling, rising, 0)
        [] lo = 120 -> Weights(0, falling, rising)
        [] lo = 240 -> Weights(rising, 0, falling)

HuesHeard == {hue} \cup (IF hue = 0 THEN {360} ELSE {})

\* C37: for every hue in [0,360] (360 is stored as 0) the three weights written
\* to each voice sum to one, at most two of them are non-zero, and they equal
\* the linear interpolation of every sector the hue lies in, so the special
\* cases at 0, 60, 120, 180, 240, 300 and 360 join the sectors without a jump.
C37_HueBlendContinuous ==
  (audioContext # "null" /\ hue \in 0..360) =>
    \A v \in Voices :
      LET w == oscillatorGains[v]
      IN  /\ w.square + w.sawtooth + w.sine = WeightUnit
          /\ Cardinality({c \in Waves : w[c] # 0}) <= 2
          /\ \A h \in HuesHeard : \A lo \in SectorsOf(h) : w = SectorWeights(lo, h)

\* C37 witness: changeHue(300) has written the magenta blend, half square and
\* half sine, which is what the 240..360 sector gives at its midpoint.
C37_Witness ==
  /\ audioContext # "null"
  /\ lastOp = "changeHue"
  /\ hue = 300
  /\ oscillatorGains["root"] = SectorWeights(240, 300)
  /\ 2 * oscillatorGains["root"].square = WeightUnit

\* C38: the component and the manager stay in step: the component plays
\* exactly when the context is running, its chord flag is the manager's, and
\* every slider value (a hundredth of it for the volume and the intensities)
\* is the manager's stored parameter.
C38_InterfaceInStep ==
  /\ soundInterface.isPlaying <=> audioContext = "running"
  /\ ~soundInterface.isPlaying <=> audioContext \in {"null", "suspended"}
  /\ soundInterface.isChordProgressionEnabled <=> isChordProgressionEnabled
  /\ soundInterface.currentVolume * GainUnit = overallVolumeGain * 100
  /\ soundInterface.currentReverbIntensity * GainUnit = reverbGain * 100
  /\ soundInterface.currentLfoIntensity * GainUnit = lfoGain * 100
  /\ soundInterface.currentLfoFrequency = lfoFrequency
  /\ soundInterface.currentChordDuration = chordDurationSeconds

\* C38 witness: after play, pause and a change of every control the
\* component shows a paused manager with chords on and no default left.
C38_Witness ==
  /\ lastOp = "pause"
  /\ audioContext = "suspended"
  /\ ~soundInterface.isPlaying
  /\ soundInterface.isChordProgressionEnabled
  /\ isChordProgressionEnabled
  /\ soundInterface.currentVolume = 100 /\ overallVolumeGain = GainUnit
  /\ soundInterface.currentReverbIntensity = 100 /\ reverbGain = GainUnit
  /\ soundInterface.currentLfoIntensity = 0 /\ lfoGain = 0
  /\ soundInterface.currentLfoFrequency = 30 /\ lfoFrequency = 30
  /\ soundInterface.currentChordDuration = 10 * DurationUnitsPerSecond
  /\ chordDurationSeconds = 10 * DurationUnitsPerSecond

====
